---------------------------- MODULE Spec2Model ----------------------------
(***************************************************************************)
(* A model of telegraf-operator's admission path: the sidecar decision     *)
(* engine (sidecarHandler), the configuration assembler (assembleConf),    *)
(* and the secret lifecycle of podInjector.Handle / createOrUpdateSecrets. *)
(*                                                                         *)
(* Texts (configuration files, class data) are sequences of lines: a Go    *)
(* string is the sequence of its lines split at "\n", so the empty string  *)
(* is <<"">> and fmt.Sprintf("%s\n%s", a, b) is the concatenation a \o b.  *)
(* Go maps (annotations, labels, secret data, the class directory, the     *)
(* secret store) are functions whose DOMAIN is the set of keys present.    *)
(***************************************************************************)
EXTENDS Integers, Sequences, FiniteSets, TLC

VARIABLES
    secrets,   \* the Secret objects of the pod's namespace: name -> object
    classes,   \* the telegraf classes directory: class name -> text
    cfg,       \* the operator's settings (sidecarHandler / podInjector fields)
    req,       \* the admission request Handle has just answered (op "NONE"
               \* once something else has changed the cluster since)
    resp,      \* the admission response returned for it
    calls,     \* the API calls Handle issued for it, in order
    pods,      \* the Pod objects of the namespace: name -> object
    pass,      \* the outcome of the reconciler's last pass over the secrets
    watcher,   \* the telegrafClassesWatcher: eventCount, eventChannel (the
               \* number of signals queued), watcherEvents (the raw
               \* notifications queued, each with the number of its burst)
    listener,  \* the monitorForChanges goroutine: where it is, and the burst
               \* of the notification it holds
    debouncer, \* the batchChanges goroutine: where it is, and its locals
    observed,  \* what has happened to the watcher so far (history)
    call       \* the last call of a function of sidecar.go on its own: the
               \* function, its arguments and what it returned

clusterVars == <<secrets, classes, cfg, req, resp, calls, pods, pass>>

watcherVars == <<watcher, listener, debouncer, observed>>

vars == <<clusterVars, watcherVars, call>>

-----------------------------------------------------------------------------
(* Constants of sidecar.go                                                 *)

IstioSidecarAnnotation == "sidecar.istio.io/status"
TelegrafAnnotationCommon == "telegraf.influxdata.com"
TelegrafMetricsPort == "telegraf.influxdata.com/port"
TelegrafMetricsPorts == "telegraf.influxdata.com/ports"
TelegrafMetricsPath == "telegraf.influxdata.com/path"
TelegrafMetricsScheme == "telegraf.influxdata.com/scheme"
TelegrafMetricVersion == "telegraf.influxdata.com/metric-version"
TelegrafInterval == "telegraf.influxdata.com/interval"
TelegrafRawInput == "telegraf.influxdata.com/inputs"
TelegrafEnableInternal == "telegraf.influxdata.com/internal"
TelegrafClass == "telegraf.influxdata.com/class"
TelegrafGlobalTagLiteralPrefix == "telegraf.influxdata.com/global-tag-literal-"
TelegrafImage == "telegraf.influxdata.com/image"
TelegrafRequestsCPU == "telegraf.influxdata.com/requests-cpu"
TelegrafRequestsMemory == "telegraf.influxdata.com/requests-memory"
TelegrafLimitsCPU == "telegraf.influxdata.com/limits-cpu"
TelegrafLimitsMemory == "telegraf.influxdata.com/limits-memory"
telegrafSecretInfix == "config"
TelegrafSecretAnnotationKey == "app.kubernetes.io/managed-by"
TelegrafSecretAnnotationValue == "telegraf-operator"
TelegrafSecretDataKey == "telegraf.conf"
TelegrafSecretLabelClassName == TelegrafClass
TelegrafSecretLabelPod == "telegraf.influxdata.com/pod"

istioInputsConf ==
    << "",
       "  [[inputs.prometheus]]",
       "    urls = [\"http://127.0.0.1:15090/stats/prometheus\"]",
       "" >>

-----------------------------------------------------------------------------
(* Go values                                                               *)

\* the empty Go string, as a text
EmptyText == <<"">>

\* no function has been called on its own
NoCall == [fn |-> "none", done |-> TRUE]

\* the elements of a slice
Elements(seq) == {seq[i] : i \in DOMAIN seq}

\* m[k] of a Go map[string]string: the zero value "" when k is absent
MapGet(m, k) == IF k \in DOMAIN m THEN m[k] ELSE ""

\* m[k] of a Go map[string][]byte: the empty slice when k is absent
DataGet(m, k) == IF k \in DOMAIN m THEN m[k] ELSE EmptyText

\* len(b) == 0 of a byte slice holding a text
IsEmptyBytes(t) == t = EmptyText

\* the annotation keys of the model that contain TelegrafAnnotationCommon
\* as a substring (strings.Contains); the last one is not a key the operator
\* reads, it only contains the common name
KeysContainingCommon ==
    { TelegrafMetricsPort, TelegrafMetricsPorts, TelegrafMetricsPath,
      TelegrafMetricsScheme, TelegrafMetricVersion, TelegrafInterval,
      TelegrafRawInput, TelegrafEnableInternal, TelegrafClass, TelegrafImage,
      TelegrafRequestsCPU, TelegrafRequestsMemory, TelegrafLimitsCPU,
      TelegrafLimitsMemory,
      "telegraf.influxdata.com/global-tag-literal-env",
      "notes.telegraf.influxdata.com/owner" }

StringsContainsCommon(key) == key \in KeysContainingCommon

\* resource.ParseQuantity succeeds on these strings and fails on every other
\* one, the empty string included
ValidQuantities == {"10m", "50m", "200m", "10Mi", "200Mi"}

ParseQuantityOK(s) == s \in ValidQuantities

\* strconv.ParseInt(s, 10, 0) and the %d rendering of its result
ParseIntOK(s) == s \in {"1", "2", "02"}

FormatInt(s) == IF s = "02" THEN "2" ELSE s

\* strconv.ParseBool
ParseBoolOK(s) == s \in {"1", "t", "T", "TRUE", "true", "True",
                         "0", "f", "F", "FALSE", "false", "False"}

ParseBoolValue(s) == s \in {"1", "t", "T", "TRUE", "true", "True"}

-----------------------------------------------------------------------------
(* classDataHandler and the configuration assembler                        *)

\* classDataHandler.getData: reading the class file fails when there is no
\* file of that name in the classes directory
getDataOK(cls, className) == className \in DOMAIN cls

getData(cls, className) == cls[className]

RECURSIVE StringsJoin(_, _)
\* strings.Join
StringsJoin(elems, sep) ==
    IF elems = <<>> THEN ""
    ELSE IF Len(elems) = 1 THEN elems[1]
    ELSE elems[1] \o sep \o StringsJoin(Tail(elems), sep)

\* the port strings of the model, in the order of Go's string comparison (a
\* port of five digits comes before one of four)
PortsInOrder == <<"10000", "6060", "8080">>

\* the longest list of ports a ports annotation holds
MaxPortsListed == 3

\* the lists of ports a ports annotation is written from
PortLists ==
    UNION { [1..n -> {PortsInOrder[i] : i \in DOMAIN PortsInOrder}] : n \in 1..MaxPortsListed }

\* strings.Split(s, ","): the list whose elements, joined by commas, make s
\* (s itself when it holds no comma)
SplitComma(s) ==
    IF s \in Elements(PortsInOrder) THEN <<s>>
    ELSE IF \E l \in PortLists : StringsJoin(l, ",") = s
         THEN CHOOSE l \in PortLists : StringsJoin(l, ",") = s
    ELSE <<s>>

\* sort.Strings of a set of port strings
SortStrings(S) == SelectSeq(PortsInOrder, LAMBDA p : p \in S)

\* ports as it would be if it returned the ports as the annotations list
\* them (what C17 rules out)
ports_AsListed(pod) ==
    (IF TelegrafMetricsPort \in DOMAIN pod.annotations
     THEN <<pod.annotations[TelegrafMetricsPort]>> ELSE <<>>)
    \o
    (IF TelegrafMetricsPorts \in DOMAIN pod.annotations
     THEN SplitComma(pod.annotations[TelegrafMetricsPorts]) ELSE <<>>)

\* ports gathers and merges unique ports from both port annotations
ports(pod) ==
    SortStrings(
      (IF TelegrafMetricsPort \in DOMAIN pod.annotations
       THEN {pod.annotations[TelegrafMetricsPort]} ELSE {})
      \cup
      (IF TelegrafMetricsPorts \in DOMAIN pod.annotations
       THEN Elements(SplitComma(pod.annotations[TelegrafMetricsPorts]))
       ELSE {}))

\* lines that github.com/influxdata/toml rejects
MalformedLines == {"\"invalid\"=invalid", "  \"invalid\" = invalid"}

\* toml.Parse succeeds: no line of the text is malformed
TomlParseOK(text) == \A i \in DOMAIN text : text[i] \notin MalformedLines

\* the tag-literal annotations of the model, in the order of their keys
GlobalTagKeysInOrder == <<"app", "env">>

\* the global tags of a pod as <<key, value>> pairs sorted by key
globalTags(ann) ==
    LET present == SelectSeq(GlobalTagKeysInOrder,
                     LAMBDA k : (TelegrafGlobalTagLiteralPrefix \o k) \in DOMAIN ann)
    IN  [i \in DOMAIN present |->
            <<present[i], ann[TelegrafGlobalTagLiteralPrefix \o present[i]]>>]

\* the lines "  key = "value"" of the generated global tags
globalTagLines(tags) ==
    [i \in DOMAIN tags |-> "  " \o tags[i][1] \o " = \"" \o tags[i][2] \o "\""]

\* the lines of the model that end with the text [global_tags]: the header
\* of the section and a comment that names it
GlobalTagsHeaderLines == {"[global_tags]", "# tags are set under [global_tags]"}

\* strings.Contains(text, "[global_tags]\n")
ContainsGlobalTagsHeader(text) ==
    \E i \in 1..(Len(text) - 1) : text[i] \in GlobalTagsHeaderLines

RECURSIVE ReplaceAllGlobalTags(_, _)
\* strings.ReplaceAll(text, "[global_tags]\n", "[global_tags]\n" + lines)
ReplaceAllGlobalTags(text, lines) ==
    IF Len(text) <= 1 THEN text
    ELSE IF Head(text) \in GlobalTagsHeaderLines
         THEN <<Head(text)>> \o lines \o ReplaceAllGlobalTags(Tail(text), lines)
         ELSE <<Head(text)>> \o ReplaceAllGlobalTags(Tail(text), lines)

\* the [[inputs.prometheus]] section assembleConf writes for the ports ps
\* (nothing when there are none)
prometheusInput(ann, ps) ==
    IF Len(ps) = 0 THEN <<>>
    ELSE << "[[inputs.prometheus]]",
            "  urls = [\""
               \o StringsJoin(
                    [i \in DOMAIN ps |->
                        (IF TelegrafMetricsScheme \in DOMAIN ann
                         THEN ann[TelegrafMetricsScheme] ELSE "http")
                        \o "://127.0.0.1:" \o ps[i]
                        \o (IF TelegrafMetricsPath \in DOMAIN ann
                            THEN ann[TelegrafMetricsPath] ELSE "/metrics")],
                    "\", \"")
               \o "\"]",
            "  " \o (IF TelegrafInterval \in DOMAIN ann
                     THEN "interval = \"" \o ann[TelegrafInterval] \o "\"" ELSE ""),
            "  " \o (IF TelegrafMetricVersion \in DOMAIN ann
                     THEN "metric_version = " \o FormatInt(ann[TelegrafMetricVersion])
                     ELSE ""),
            "" >>

\* the metric-version annotation is read (there are ports) and is no number
versionBad(ann, ps) ==
    /\ Len(ps) # 0
    /\ TelegrafMetricVersion \in DOMAIN ann
    /\ ~ParseIntOK(ann[TelegrafMetricVersion])

\* the [[inputs.internal]] section, when the internal plugin is enabled
internalInput(h, ann) ==
    IF IF /\ TelegrafEnableInternal \in DOMAIN ann
          /\ ParseBoolOK(ann[TelegrafEnableInternal])
       THEN ParseBoolValue(ann[TelegrafEnableInternal])
       ELSE h.EnableDefaultInternalPlugin
    THEN <<"[[inputs.internal]]", "">>
    ELSE <<>>

\* the raw inputs of the pod
rawInput(ann) == IF TelegrafRawInput \in DOMAIN ann THEN ann[TelegrafRawInput] ELSE <<>>

\* the global tags injected into the text telegrafConf
withGlobalTags(telegrafConf, tags) ==
    IF Len(tags) > 0
    THEN ReplaceAllGlobalTags(
           IF ContainsGlobalTagsHeader(telegrafConf)
           THEN telegrafConf ELSE telegrafConf \o <<"[global_tags]", "">>,
           globalTagLines(tags))
    ELSE telegrafConf

\* the end of assembleConf: the text is returned when it parses
parsedConf(telegrafConf) ==
    IF ~TomlParseOK(telegrafConf) THEN [err |-> "toml", conf |-> EmptyText]
    ELSE [err |-> "none", conf |-> telegrafConf]

\* assembleConf as it would be if the class text came before the sections of
\* the pod (what C18 rules out)
assembleConf_ClassFirst(h, cls, pod, className) ==
    IF ~getDataOK(cls, className) THEN [err |-> "class", conf |-> EmptyText]
    ELSE IF versionBad(pod.annotations, ports(pod))
         THEN [err |-> "version", conf |-> EmptyText]
    ELSE parsedConf(
           withGlobalTags(
             EmptyText
               \o getData(cls, className)
               \o prometheusInput(pod.annotations, ports(pod))
               \o internalInput(h, pod.annotations)
               \o rawInput(pod.annotations),
             globalTags(pod.annotations)))

\* sidecarHandler.assembleConf: err is "none", "class" (no class data),
\* "version" (metric-version is not a number) or "toml" (the result does not
\* parse); conf is the assembled text when err is "none"
assembleConf(h, cls, pod, className) ==
    IF ~getDataOK(cls, className) THEN [err |-> "class", conf |-> EmptyText]
    ELSE IF versionBad(pod.annotations, ports(pod))
         THEN [err |-> "version", conf |-> EmptyText]
    ELSE parsedConf(
           withGlobalTags(
             EmptyText
               \o prometheusInput(pod.annotations, ports(pod))
               \o internalInput(h, pod.annotations)
               \o rawInput(pod.annotations)
               \o getData(cls, className),
             globalTags(pod.annotations)))

-----------------------------------------------------------------------------
(* The sidecar decision engine                                             *)

podHasContainerName(pod, name) ==
    \E i \in DOMAIN pod.containers : pod.containers[i].name = name

\* shouldAddTelegrafSidecar as it would be without the look for an existing
\* container (what C8 rules out)
shouldAddTelegrafSidecar_NoContainerCheck(h, pod) ==
    \E key \in DOMAIN pod.annotations : StringsContainsCommon(key)

\* shouldAddTelegrafSidecar as it would be without the look at the annotations
\* (what C7 rules out)
shouldAddTelegrafSidecar_AnyPod(h, pod) ==
    ~podHasContainerName(pod, "telegraf")

shouldAddTelegrafSidecar(h, pod) ==
    /\ ~podHasContainerName(pod, "telegraf")
    /\ \E key \in DOMAIN pod.annotations : StringsContainsCommon(key)

shouldAddIstioTelegrafSidecar(h, pod) ==
    /\ ~podHasContainerName(pod, "telegraf-istio")
    /\ h.EnableIstioInjection
    /\ \E key \in DOMAIN pod.annotations : key = IstioSidecarAnnotation

skip(h, pod) ==
    ~shouldAddTelegrafSidecar(h, pod) /\ ~shouldAddIstioTelegrafSidecar(h, pod)

\* telegrafSecretNames as it would be if the variant came after the infix
\* (what C38 rules out)
telegrafSecretNames_VariantAfterInfix(name) ==
    << "telegraf-" \o telegrafSecretInfix \o "-" \o name,
       "telegraf-" \o telegrafSecretInfix \o "-istio-" \o name >>

\* the names of every variant's secret for a pod name
telegrafSecretNames(name) ==
    << "telegraf-" \o telegrafSecretInfix \o "-" \o name,
       "telegraf-istio-" \o telegrafSecretInfix \o "-" \o name >>

\* newSecret as it would be without the managed-by annotation (what C15
\* rules out)
newSecret_NoManagedBy(className, name, containerName, telegrafConf) ==
    [ name        |-> containerName \o "-" \o telegrafSecretInfix \o "-" \o name,
      type        |-> "Opaque",
      annotations |-> <<>>,
      labels      |-> (TelegrafSecretLabelClassName :> className
                         @@ TelegrafSecretLabelPod :> name),
      data        |-> <<>>,
      stringData  |-> (TelegrafSecretDataKey :> telegrafConf) ]

\* the Secret object the operator sends to the API server
newSecret(className, name, containerName, telegrafConf) ==
    [ name        |-> containerName \o "-" \o telegrafSecretInfix \o "-" \o name,
      type        |-> "Opaque",
      annotations |-> (TelegrafSecretAnnotationKey :> TelegrafSecretAnnotationValue),
      labels      |-> (TelegrafSecretLabelClassName :> className
                         @@ TelegrafSecretLabelPod :> name),
      data        |-> <<>>,
      stringData  |-> (TelegrafSecretDataKey :> telegrafConf) ]

newVolume(name, containerName) ==
    [ name       |-> containerName \o "-config",
      secretName |-> containerName \o "-" \o telegrafSecretInfix \o "-" \o name ]

\* parseCustomOrDefaultQuantity as it would be if a custom quantity that
\* does not parse were an error (what C19 rules out)
parseCustomOrDefaultQuantity_Reject(list, resourceName, customQuantity, defaultQuantity) ==
    IF customQuantity = "" THEN [err |-> FALSE, list |-> list]
    ELSE IF ParseQuantityOK(customQuantity)
         THEN [err |-> FALSE, list |-> (resourceName :> customQuantity) @@ list]
    ELSE [err |-> TRUE, list |-> list]

\* parseCustomOrDefaultQuantity: err is TRUE when neither the custom nor the
\* default quantity parses; otherwise list is the ResourceList afterwards
parseCustomOrDefaultQuantity(list, resourceName, customQuantity, defaultQuantity) ==
    IF customQuantity = "" THEN [err |-> FALSE, list |-> list]
    ELSE IF ParseQuantityOK(customQuantity)
         THEN [err |-> FALSE, list |-> (resourceName :> customQuantity) @@ list]
    ELSE IF defaultQuantity = "" THEN [err |-> FALSE, list |-> list]
    ELSE IF ParseQuantityOK(defaultQuantity)
         THEN [err |-> FALSE, list |-> (resourceName :> defaultQuantity) @@ list]
    ELSE [err |-> TRUE, list |-> list]

createTelegrafCommand(watchConfig) ==
    IF watchConfig # ""
    THEN <<"telegraf", "--config", "/etc/telegraf/telegraf.conf", "--watch-config", watchConfig>>
    ELSE <<"telegraf", "--config", "/etc/telegraf/telegraf.conf">>

\* the value of an annotation, or the operator's default when it is absent
CustomOrDefault(ann, key, default) == IF key \in DOMAIN ann THEN ann[key] ELSE default

\* the next call of parseCustomOrDefaultQuantity in newContainer, which
\* returns at the first error
thenQuantity(parsed, resourceName, customQuantity, defaultQuantity) ==
    IF parsed.err THEN parsed
    ELSE parseCustomOrDefaultQuantity(parsed.list, resourceName, customQuantity, defaultQuantity)

\* the container newContainer returns for the parsed requests and limits
baseContainer(h, pod, containerName, requests, limits) ==
    [ err |-> requests.err \/ limits.err,
      container |->
        [ name        |-> containerName,
          image       |-> CustomOrDefault(pod.annotations, TelegrafImage, h.TelegrafImage),
          command     |-> createTelegrafCommand(h.TelegrafWatchConfig),
          requests    |-> requests.list,
          limits      |-> limits.list,
          volumeMount |-> containerName \o "-config" ] ]

\* sidecarHandler.newContainer (resources, image and command of the sidecar)
newContainer(h, pod, containerName) ==
    baseContainer(h, pod, containerName,
      thenQuantity(
        parseCustomOrDefaultQuantity(<<>>, "cpu",
          CustomOrDefault(pod.annotations, TelegrafRequestsCPU, h.RequestsCPU), h.RequestsCPU),
        "memory",
        CustomOrDefault(pod.annotations, TelegrafRequestsMemory, h.RequestsMemory),
        h.RequestsMemory),
      thenQuantity(
        parseCustomOrDefaultQuantity(<<>>, "cpu",
          CustomOrDefault(pod.annotations, TelegrafLimitsCPU, h.LimitsCPU), h.LimitsCPU),
        "memory",
        CustomOrDefault(pod.annotations, TelegrafLimitsMemory, h.LimitsMemory),
        h.LimitsMemory))

\* sidecarHandler.newIstioContainer: every operator default must parse
newIstioContainer(h, pod, containerName) ==
    [ err |-> \/ ~ParseQuantityOK(h.RequestsCPU)
              \/ ~ParseQuantityOK(h.RequestsMemory)
              \/ ~ParseQuantityOK(h.LimitsCPU)
              \/ ~ParseQuantityOK(h.LimitsMemory),
      container |->
        [ name        |-> containerName,
          image       |-> IF h.IstioTelegrafImage = ""
                          THEN h.TelegrafImage ELSE h.IstioTelegrafImage,
          command     |-> createTelegrafCommand(h.IstioTelegrafWatchConfig),
          requests    |-> ("cpu" :> h.RequestsCPU @@ "memory" :> h.RequestsMemory),
          limits      |-> ("cpu" :> h.LimitsCPU @@ "memory" :> h.LimitsMemory),
          volumeMount |-> containerName \o "-config" ] ]

\* The result of the add* functions: err is "none", "nonfatal" (a
\* nonFatalError) or "fatal"; pod is the pod object afterwards (it is passed
\* by pointer, so it keeps what was appended before an error); secrets is
\* result.secrets.
SidecarResult(err, message, pod, secretList) ==
    [err |-> err, message |-> message, pod |-> pod, secrets |-> secretList]

\* addContainerAndSecret as it would be if the sidecar were put before the
\* containers and volumes of the pod (what C20 rules out)
addContainerAndSecret_Prepend(res, container, className, name, telegrafConf) ==
    SidecarResult("none", "",
        [res.pod EXCEPT !.containers = <<container>> \o @,
                        !.volumes = <<newVolume(name, container.name)>> \o @],
        Append(res.secrets, newSecret(className, name, container.name, telegrafConf)))

\* addContainerAndSecret as it would be if the secret were put in front of
\* result.secrets (what C36 rules out)
addContainerAndSecret_SecretInFront(res, container, className, name, telegrafConf) ==
    SidecarResult("none", "",
        [res.pod EXCEPT !.containers = Append(@, container),
                        !.volumes = Append(@, newVolume(name, container.name))],
        <<newSecret(className, name, container.name, telegrafConf)>> \o res.secrets)

addContainerAndSecret(res, container, className, name, telegrafConf) ==
    SidecarResult("none", "",
        [res.pod EXCEPT !.containers = Append(@, container),
                        !.volumes = Append(@, newVolume(name, container.name))],
        Append(res.secrets, newSecret(className, name, container.name, telegrafConf)))

\* the rest of addTelegrafSidecar as it would be if the error of
\* assembleConf were returned as it is, not wrapped in a nonFatalError (what
\* C4 rules out)
addAssembled_Fatal(res, className, name, assembled, built) ==
    IF assembled.err # "none" \/ built.err
    THEN SidecarResult("fatal", "", res.pod, res.secrets)
    ELSE addContainerAndSecret(res, built.container, className, name, assembled.conf)

\* the rest of addTelegrafSidecar once assembleConf and newContainer have
\* returned
addAssembled(res, className, name, assembled, built) ==
    IF assembled.err # "none"
    THEN SidecarResult("nonfatal",
           "telegraf-operator could not create sidecar container due to error in class data",
           res.pod, res.secrets)
    ELSE IF built.err THEN SidecarResult("fatal", "", res.pod, res.secrets)
    ELSE addContainerAndSecret(res, built.container, className, name, assembled.conf)

addTelegrafSidecar(h, cls, res, name, containerName) ==
    addAssembled(res,
      CustomOrDefault(res.pod.annotations, TelegrafClass, h.TelegrafDefaultClass), name,
      assembleConf(h, cls, res.pod,
        CustomOrDefault(res.pod.annotations, TelegrafClass, h.TelegrafDefaultClass)),
      newContainer(h, res.pod, containerName))

\* the rest of addIstioTelegrafSidecar once newIstioContainer has returned
addIstioBuilt(h, cls, res, name, built) ==
    IF built.err THEN SidecarResult("fatal", "", res.pod, res.secrets)
    ELSE addContainerAndSecret(res, built.container, h.IstioOutputClass, name,
           istioInputsConf \o <<"">> \o getData(cls, h.IstioOutputClass))

addIstioTelegrafSidecar(h, cls, res, name) ==
    IF ~getDataOK(cls, h.IstioOutputClass)
    THEN SidecarResult("nonfatal",
           "telegraf-operator could not create sidecar container for istio class",
           res.pod, res.secrets)
    ELSE addIstioBuilt(h, cls, res, name, newIstioContainer(h, res.pod, "telegraf-istio"))

\* the second half of addSidecars: first is what the primary variant left
\* (its error ends the call)
addIstioAfter(h, cls, name, first) ==
    IF first.err # "none" THEN first
    ELSE IF shouldAddIstioTelegrafSidecar(h, first.pod)
         THEN addIstioTelegrafSidecar(h, cls, first, name)
         ELSE first

\* sidecarHandler.addSidecars: the first error ends the call
addSidecars(h, cls, pod, name) ==
    addIstioAfter(h, cls, name,
      IF shouldAddTelegrafSidecar(h, pod)
      THEN addTelegrafSidecar(h, cls, SidecarResult("none", "", pod, <<>>), name, "telegraf")
      ELSE SidecarResult("none", "", pod, <<>>))

-----------------------------------------------------------------------------
(* The secret store and podInjector                                        *)

\* what the API server stores for a Secret object it is sent: stringData is
\* merged into data
Stored(obj) ==
    [ name        |-> obj.name,
      type        |-> obj.type,
      annotations |-> obj.annotations,
      labels      |-> obj.labels,
      data        |-> obj.stringData @@ obj.data ]

isSecretManagedByTelegrafOperator(h, secret) ==
    IF secret.type # "Opaque" THEN FALSE
    ELSE IF \/ Cardinality(DOMAIN secret.data) # 1
            \/ IsEmptyBytes(DataGet(secret.data, TelegrafSecretDataKey))
         THEN FALSE
    ELSE IF /\ h.RequireAnnotationsForSecret
            /\ ~(MapGet(secret.annotations, TelegrafSecretAnnotationKey)
                    = TelegrafSecretAnnotationValue)
         THEN FALSE
    ELSE TRUE

\* One API call of a request, as recorded in calls: verb is "create", "get",
\* "update" or "delete"; result is "ok", "AlreadyExists", "NotFound" or
\* "error" (any other upstream failure); seen holds the object a successful
\* get returned.
ApiCall(verb, name, result, seen) ==
    [verb |-> verb, name |-> name, result |-> result, seen |-> seen]

\* failAt numbers the API call of the request that meets an upstream
\* failure (0: none does)
UpstreamFails(trace, failAt) == failAt = Len(trace) + 1

\* The outcome of createOrUpdateSecrets: err is "none", "conflict" (the
\* existing secret is not managed by telegraf-operator) or "api".
SecretsOutcome(err, store, trace) == [err |-> err, store |-> store, calls |-> trace]

RECURSIVE createOrUpdateSecrets_NoManagedCheck(_, _, _, _, _)
\* createOrUpdateSecrets as it would be if it updated whatever secret it
\* finds (what C1 rules out)
createOrUpdateSecrets_NoManagedCheck(h, list, store, trace, failAt) ==
    IF list = <<>> THEN SecretsOutcome("none", store, trace)
    ELSE
    LET secret == Head(list)
        n == secret.name
        createResult == IF UpstreamFails(trace, failAt) THEN "error"
                        ELSE IF n \in DOMAIN store THEN "AlreadyExists"
                        ELSE "ok"
        t1 == Append(trace, ApiCall("create", n, createResult, <<>>))
        getResult == IF UpstreamFails(t1, failAt) THEN "error"
                     ELSE IF n \in DOMAIN store THEN "ok" ELSE "NotFound"
        existingSecret == IF getResult = "ok" THEN <<store[n]>> ELSE <<>>
        t2 == Append(t1, ApiCall("get", n, getResult, existingSecret))
        updateResult == IF UpstreamFails(t2, failAt) THEN "error"
                        ELSE IF n \in DOMAIN store THEN "ok" ELSE "NotFound"
        t3 == Append(t2, ApiCall("update", n, updateResult, <<>>))
    IN  IF createResult = "ok"
        THEN createOrUpdateSecrets_NoManagedCheck(h, Tail(list),
               (n :> Stored(secret)) @@ store, t1, failAt)
        ELSE IF createResult = "error" THEN SecretsOutcome("api", store, t1)
        ELSE IF getResult # "ok" THEN SecretsOutcome("api", store, t2)
        ELSE IF updateResult # "ok" THEN SecretsOutcome("api", store, t3)
        ELSE createOrUpdateSecrets_NoManagedCheck(h, Tail(list),
               (n :> Stored(secret)) @@ store, t3, failAt)

RECURSIVE createOrUpdateSecrets_KeepExisting(_, _, _, _, _)
\* createOrUpdateSecrets as it would be if it left a managed secret it finds
\* as it is (what C2 rules out)
createOrUpdateSecrets_KeepExisting(h, list, store, trace, failAt) ==
    IF list = <<>> THEN SecretsOutcome("none", store, trace)
    ELSE
    LET secret == Head(list)
        n == secret.name
        createResult == IF UpstreamFails(trace, failAt) THEN "error"
                        ELSE IF n \in DOMAIN store THEN "AlreadyExists"
                        ELSE "ok"
        t1 == Append(trace, ApiCall("create", n, createResult, <<>>))
        getResult == IF UpstreamFails(t1, failAt) THEN "error"
                     ELSE IF n \in DOMAIN store THEN "ok" ELSE "NotFound"
        existingSecret == IF getResult = "ok" THEN <<store[n]>> ELSE <<>>
        t2 == Append(t1, ApiCall("get", n, getResult, existingSecret))
    IN  IF createResult = "ok"
        THEN createOrUpdateSecrets_KeepExisting(h, Tail(list),
               (n :> Stored(secret)) @@ store, t1, failAt)
        ELSE IF createResult = "error" THEN SecretsOutcome("api", store, t1)
        ELSE IF getResult # "ok" THEN SecretsOutcome("api", store, t2)
        ELSE IF ~isSecretManagedByTelegrafOperator(h, existingSecret[1])
             THEN SecretsOutcome("conflict", store, t2)
        ELSE createOrUpdateSecrets_KeepExisting(h, Tail(list), store, t2, failAt)

RECURSIVE createOrUpdateSecrets(_, _, _, _, _)
createOrUpdateSecrets(h, list, store, trace, failAt) ==
    IF list = <<>> THEN SecretsOutcome("none", store, trace)
    ELSE
    LET secret == Head(list)
        n == secret.name
        createResult == IF UpstreamFails(trace, failAt) THEN "error"
                        ELSE IF n \in DOMAIN store THEN "AlreadyExists"
                        ELSE "ok"
        t1 == Append(trace, ApiCall("create", n, createResult, <<>>))
        getResult == IF UpstreamFails(t1, failAt) THEN "error"
                     ELSE IF n \in DOMAIN store THEN "ok" ELSE "NotFound"
        existingSecret == IF getResult = "ok" THEN <<store[n]>> ELSE <<>>
        t2 == Append(t1, ApiCall("get", n, getResult, existingSecret))
        updateResult == IF UpstreamFails(t2, failAt) THEN "error"
                        ELSE IF n \in DOMAIN store THEN "ok" ELSE "NotFound"
        t3 == Append(t2, ApiCall("update", n, updateResult, <<>>))
    IN  IF createResult = "ok"
        THEN createOrUpdateSecrets(h, Tail(list), (n :> Stored(secret)) @@ store, t1, failAt)
        ELSE IF createResult = "error" THEN SecretsOutcome("api", store, t1)
        ELSE IF getResult # "ok" THEN SecretsOutcome("api", store, t2)
        ELSE IF ~isSecretManagedByTelegrafOperator(h, existingSecret[1])
             THEN SecretsOutcome("conflict", store, t2)
        ELSE IF updateResult # "ok" THEN SecretsOutcome("api", store, t3)
        ELSE createOrUpdateSecrets(h, Tail(list), (n :> Stored(secret)) @@ store, t3, failAt)

\* the Delete branch of Handle as it would be if the first failed deletion
\* ended the loop (what C10 rules out)
deleteSecrets_StopAtFailure(names, store, trace, failAt) ==
    LET n == Head(names)
        result == IF UpstreamFails(trace, failAt) THEN "error"
                  ELSE IF n \in DOMAIN store THEN "ok" ELSE "NotFound"
        after == [k \in DOMAIN store \ {n} |-> store[k]]
        t1 == Append(trace, ApiCall("delete", n, result, <<>>))
        m == names[2]
        result2 == IF UpstreamFails(t1, failAt) THEN "error"
                   ELSE IF m \in DOMAIN after THEN "ok" ELSE "NotFound"
        after2 == IF result2 = "ok"
                  THEN [k \in DOMAIN after \ {m} |-> after[k]] ELSE after
    IN  IF result # "ok"
        THEN [deleteFailed |-> TRUE, store |-> store, calls |-> t1]
        ELSE [ deleteFailed |-> result2 # "ok", store |-> after2,
               calls |-> Append(t1, ApiCall("delete", m, result2, <<>>)) ]

RECURSIVE deleteSecrets(_, _, _, _)
\* the Delete branch of Handle: one delete per secret name, failures are
\* remembered in deleteFailed and do not end the loop
deleteSecrets(names, store, trace, failAt) ==
    IF names = <<>>
    THEN [ deleteFailed |-> \E i \in DOMAIN trace : trace[i].result # "ok",
           store |-> store, calls |-> trace ]
    ELSE
    LET n == Head(names)
        result == IF UpstreamFails(trace, failAt) THEN "error"
                  ELSE IF n \in DOMAIN store THEN "ok" ELSE "NotFound"
        after == IF result = "ok"
                 THEN [k \in DOMAIN store \ {n} |-> store[k]] ELSE store
    IN  deleteSecrets(Tail(names), after, Append(trace, ApiCall("delete", n, result, <<>>)), failAt)

\* An admission response: patch holds the mutated pod of a patch response
\* (admission.PatchResponseFromRaw) and is empty for admission.Allowed and
\* admission.Errored; kind tells the return statement of Handle that made it.
Response(allowed, code, kind, message, patch) ==
    [allowed |-> allowed, code |-> code, kind |-> kind, message |-> message, patch |-> patch]

Allowed(kind, message) == Response(TRUE, 200, kind, message, <<>>)

Errored(code, kind) == Response(FALSE, code, kind, "", <<>>)

\* The outcome of Handle: the response, the store afterwards and the calls.
Outcome(response, store, trace) == [resp |-> response, store |-> store, calls |-> trace]

\* the end of the Delete branch of Handle
deleteResponse(d) ==
    IF d.deleteFailed
    THEN Outcome(Allowed("delete-failed",
           "telegraf-injector couldn't delete one or more secrets"), d.store, d.calls)
    ELSE Outcome(Allowed("deleted",
           "telegraf-injector doesn't block pod deletions"), d.store, d.calls)

\* the end of Handle once createOrUpdateSecrets has returned
secretsResponse(result, written) ==
    IF written.err # "none"
    THEN Outcome(Errored(400, written.err), written.store, written.calls)
    ELSE Outcome(Response(TRUE, 200, "patch", "", <<result.pod>>),
                 written.store, written.calls)

\* Handle once addSidecars has returned
sidecarsResponse(h, store, failAt, result) ==
    IF result.err = "nonfatal"
    THEN Outcome(Allowed("nonfatal", result.message), store, <<>>)
    ELSE IF result.err = "fatal" THEN Outcome(Errored(400, "sidecar"), store, <<>>)
    ELSE secretsResponse(result,
           createOrUpdateSecrets(h, result.secrets, store, <<>>, failAt))

\* podInjector.Handle for a request r; r.object holds the pod, or nothing
\* when the request cannot be decoded
HandleOutcome(h, cls, store, r, failAt) ==
    IF r.op = "DELETE"
    THEN deleteResponse(deleteSecrets(telegrafSecretNames(r.name), store, <<>>, failAt))
    ELSE IF r.object = <<>> THEN Outcome(Errored(400, "decode"), store, <<>>)
    ELSE IF skip(h, r.object[1])
         THEN Outcome(Allowed("skip", "telegraf-injector has no power over this pod"),
                      store, <<>>)
    ELSE sidecarsResponse(h, store, failAt,
           addSidecars(h, cls, r.object[1], r.object[1].name))

-----------------------------------------------------------------------------
(* The reconciler (secretsUpdater)                                         *)

\* The outcome of a pass: err is "none", "api" (a call failed), "labels"
\* (a listed secret lacks a pod or class label), "assemble" (assembleConf
\* failed) or "panic" (a write into the nil data map of a secret).
PassOutcome(err, store, trace) == [err |-> err, store |-> store, calls |-> trace]

NoPass == [err |-> "none", calls |-> <<>>]

\* the namespaces of the cluster in the order the API server lists them; the
\* pods and secrets of the model live in the first one
NamespacesInOrder == <<"default", "kube-system">>

\* the objects of store that live in namespace
inNamespace(store, namespace) ==
    IF namespace = Head(NamespacesInOrder) THEN store ELSE <<>>

\* the names of the model's secrets in the order the API server lists them
SecretNamesInOrder == <<"telegraf-config-web", "telegraf-istio-config-web">>

\* Secrets.List as it would be without the label selector (what C21 rules
\* out)
listSecrets_NoSelector(store) ==
    SelectSeq(SecretNamesInOrder, LAMBDA n : n \in DOMAIN store)

\* the items of Secrets.List under the class-name label selector
listSecrets(store) ==
    SelectSeq(SecretNamesInOrder,
              LAMBDA n : n \in DOMAIN store
                         /\ TelegrafSecretLabelClassName \in DOMAIN store[n].labels)

\* the secret with its telegraf.conf replaced
withTelegrafConf(secret, telegrafConf) ==
    [secret EXCEPT !.data = (TelegrafSecretDataKey :> telegrafConf) @@ @]

\* the loop body of updateSecretsInNamespace from the call of assembleConf
\* on: the secret is written when the fresh text differs from the stored one
compareAndUpdate(store, secret, assembled, trace, failAt) ==
    IF assembled.err # "none" THEN PassOutcome("assemble", store, trace)
    ELSE IF DataGet(secret.data, TelegrafSecretDataKey) = assembled.conf
         THEN PassOutcome("none", store, trace)
    ELSE IF DOMAIN secret.data = {} THEN PassOutcome("panic", store, trace)
    ELSE IF UpstreamFails(trace, failAt)
         THEN PassOutcome("api", store,
                          Append(trace, ApiCall("update", secret.name, "error", <<>>)))
    ELSE PassOutcome("none",
                     (secret.name :> withTelegrafConf(secret, assembled.conf)) @@ store,
                     Append(trace, ApiCall("update", secret.name, "ok", <<>>)))

\* the loop body as it would be without the check of the two labels (what
\* C24 rules out)
updateSecret_NoLabelCheck(h, cls, podStore, store, secret, podName, className, trace, failAt) ==
    IF UpstreamFails(trace, failAt)
         THEN PassOutcome("api", store,
                          Append(trace, ApiCall("get-pod", podName, "error", <<>>)))
    ELSE IF podName \notin DOMAIN podStore
         THEN PassOutcome("api", store,
                          Append(trace, ApiCall("get-pod", podName, "NotFound", <<>>)))
    ELSE compareAndUpdate(store, secret,
                          assembleConf(h, cls, podStore[podName], className),
                          Append(trace, ApiCall("get-pod", podName, "ok", <<>>)),
                          failAt)

\* the loop body of updateSecretsInNamespace for one listed secret
updateSecret(h, cls, podStore, store, secret, podName, className, trace, failAt) ==
    IF podName = "" \/ className = "" THEN PassOutcome("labels", store, trace)
    ELSE IF UpstreamFails(trace, failAt)
         THEN PassOutcome("api", store,
                          Append(trace, ApiCall("get-pod", podName, "error", <<>>)))
    ELSE IF podName \notin DOMAIN podStore
         THEN PassOutcome("api", store,
                          Append(trace, ApiCall("get-pod", podName, "NotFound", <<>>)))
    ELSE compareAndUpdate(store, secret,
                          assembleConf(h, cls, podStore[podName], className),
                          Append(trace, ApiCall("get-pod", podName, "ok", <<>>)),
                          failAt)

RECURSIVE updateSecretsLoop_Continue(_, _, _, _, _)
\* the loop of updateSecretsInNamespace as it would be if it went on to the
\* next secret after an error (what C23 rules out)
updateSecretsLoop_Continue(h, cls, podStore, names, sofar) ==
    IF names = <<>> THEN sofar.out
    ELSE updateSecretsLoop_Continue(h, cls, podStore, Tail(names),
           [ failAt |-> sofar.failAt,
             out    |-> updateSecret(h, cls, podStore, sofar.out.store,
                                     sofar.out.store[Head(names)],
                                     MapGet(sofar.out.store[Head(names)].labels,
                                            TelegrafSecretLabelPod),
                                     MapGet(sofar.out.store[Head(names)].labels,
                                            TelegrafSecretLabelClassName),
                                     sofar.out.calls, sofar.failAt) ])

RECURSIVE updateSecretsLoop(_, _, _, _, _)
\* the loop of updateSecretsInNamespace over the listed secrets still to
\* visit: it returns at the first error
updateSecretsLoop(h, cls, podStore, names, sofar) ==
    IF sofar.out.err # "none" \/ names = <<>> THEN sofar.out
    ELSE updateSecretsLoop(h, cls, podStore, Tail(names),
           [ failAt |-> sofar.failAt,
             out    |-> updateSecret(h, cls, podStore, sofar.out.store,
                                     sofar.out.store[Head(names)],
                                     MapGet(sofar.out.store[Head(names)].labels,
                                            TelegrafSecretLabelPod),
                                     MapGet(sofar.out.store[Head(names)].labels,
                                            TelegrafSecretLabelClassName),
                                     sofar.out.calls, sofar.failAt) ])

updateSecretsInNamespace(h, cls, podStore, store, namespace, trace, failAt) ==
    IF UpstreamFails(trace, failAt)
    THEN PassOutcome("api", store,
                     Append(trace, ApiCall("list-secrets", namespace, "error", <<>>)))
    ELSE updateSecretsLoop(h, cls, inNamespace(podStore, namespace),
           listSecrets(inNamespace(store, namespace)),
           [ failAt |-> failAt,
             out    |-> PassOutcome("none", store,
                          Append(trace, ApiCall("list-secrets", namespace, "ok", <<>>))) ])

RECURSIVE onChangeLoop(_, _, _, _, _)
\* the loop of onChange over the namespaces still to visit: it returns at
\* the first error
onChangeLoop(h, cls, podStore, namespaces, sofar) ==
    IF sofar.out.err # "none" \/ namespaces = <<>> THEN sofar.out
    ELSE onChangeLoop(h, cls, podStore, Tail(namespaces),
           [ failAt |-> sofar.failAt,
             out    |-> updateSecretsInNamespace(h, cls, podStore, sofar.out.store,
                                                 Head(namespaces), sofar.out.calls,
                                                 sofar.failAt) ])

\* onChange: the namespaces are listed, then each one is visited
onChange(h, cls, podStore, store, failAt) ==
    IF UpstreamFails(<<>>, failAt)
    THEN PassOutcome("api", store, <<ApiCall("list-namespaces", "", "error", <<>>)>>)
    ELSE onChangeLoop(h, cls, podStore, NamespacesInOrder,
           [ failAt |-> failAt,
             out    |-> PassOutcome("none", store,
                          <<ApiCall("list-namespaces", "", "ok", <<>>)>>) ])

-----------------------------------------------------------------------------
(* The watcher (telegrafClassesWatcher)                                    *)

\* the capacity of eventChannel
EventChannelCapacity == 100

\* batchChanges between two statements: pc is "range" (waiting at the
\* channel), "load" (a signal was received), "sleep" (in time.Sleep),
\* "invoke" (the counter was read again), "callback" (in onChange)
Debouncer(pc, currentEventCount, previousEventCount) ==
    [ pc |-> pc, currentEventCount |-> currentEventCount,
      previousEventCount |-> previousEventCount ]

\* the first read of the counter as it would be if every signal led to a
\* callback (what C12 rules out)
loadEventCount_NoCompare(d, eventCount) ==
    Debouncer("sleep", eventCount, d.previousEventCount)

\* the first read of the counter as it would be if onChange were called
\* without the sleep (what C27 rules out)
loadEventCount_NoSleep(d, eventCount) ==
    IF eventCount # d.previousEventCount
    THEN Debouncer("invoke", eventCount, d.previousEventCount)
    ELSE Debouncer("range", eventCount, d.previousEventCount)

\* the first read of the counter and its comparison with the value of the
\* last callback
loadEventCount(d, eventCount) ==
    IF eventCount # d.previousEventCount
    THEN Debouncer("sleep", eventCount, d.previousEventCount)
    ELSE Debouncer("range", eventCount, d.previousEventCount)

\* the end of the sleep as it would be if the counter were not read again
\* (what C13 rules out)
reloadEventCount_NoReload(d, eventCount) ==
    Debouncer("invoke", d.currentEventCount, d.previousEventCount)

\* the end of the sleep: the counter is read again
reloadEventCount(d, eventCount) ==
    Debouncer("invoke", eventCount, d.previousEventCount)

\* the return of onChange as it would be if the value recorded as processed
\* were the counter read after the callback (what C29 rules out)
callbackReturned_ReadAfter(d) ==
    Debouncer("range", watcher.eventCount, watcher.eventCount)

\* batchChanges as it would be if it did not record the value it has just
\* processed (what C39 rules out)
callbackReturned_KeepPrevious(d) ==
    Debouncer("range", d.currentEventCount, d.previousEventCount)

\* onChange has returned
callbackReturned(d) ==
    Debouncer("range", d.currentEventCount, d.currentEventCount)

\* the watcher, its goroutines and the history when createGoroutines returns.
\* The history counts the notifications queued (notified), the bursts, the
\* second reads of the counter (rereads), the calls of onChange (callbacks)
\* and its returns (returned); loaded is the value the first read of the
\* current iteration returned, quiet tells that no notification was counted
\* during the last sleep, unanswered counts the notifications counted since
\* onChange was last called
WatcherCreated ==
    /\ watcher = [eventCount |-> 0, eventChannel |-> 0, watcherEvents |-> <<>>]
    /\ listener = [pc |-> "receive", burst |-> 0]
    /\ debouncer = Debouncer("range", 0, 0)
    /\ observed = [ notified |-> 0, bursts |-> 0, rereads |-> 0, callbacks |-> 0,
                    returned |-> 0, separated |-> TRUE, inWindow |-> TRUE,
                    loaded |-> 0, quiet |-> TRUE, unanswered |-> 0 ]

-----------------------------------------------------------------------------
(* The cluster the operator runs in                                        *)

\* the pod names of the model; a pod reaches Handle with its name set (the
\* generateName branch only picks the name)
PodNames == {"web"}

SecretNames ==
    UNION { {telegrafSecretNames(p)[i] : i \in 1..2} : p \in PodNames }

ClassBasic == <<"[[outputs.file]]", "  files = [\"stdout\"]">>

ClassIstio == <<"[[outputs.influxdb]]", "  database = \"istio\"", "">>

\* the contents the classes directory takes: the istio class file comes
\* and goes
ClassDirectories ==
    { ("basic" :> ClassBasic) @@ i : i \in {<<>>, "istio" :> ClassIstio} }

\* the operator's settings: validateRequestsAndLimits accepts a default
\* quantity that parses and one that is empty
OperatorSettings ==
    { [ TelegrafDefaultClass        |-> "basic",
        TelegrafImage               |-> "docker.io/library/telegraf:1.19",
        TelegrafWatchConfig         |-> "",
        EnableDefaultInternalPlugin |-> FALSE,
        RequestsCPU                 |-> s[1],
        RequestsMemory              |-> "10Mi",
        LimitsCPU                   |-> "200m",
        LimitsMemory                |-> "200Mi",
        EnableIstioInjection        |-> s[2],
        IstioOutputClass            |-> "istio",
        IstioTelegrafImage          |-> "",
        IstioTelegrafWatchConfig    |-> "",
        RequireAnnotationsForSecret |-> s[3] ] :
        s \in { <<"10m", TRUE, FALSE>>, <<"10m", TRUE, TRUE>>,
                <<"", TRUE, TRUE>>, <<"10m", FALSE, TRUE>> } }

\* the telegraf annotations pods carry
BaseAnnotations ==
    { <<>>,
      TelegrafMetricsPort :> "8080",
      TelegrafClass :> "nosuch",
      TelegrafRawInput :> <<"[[inputs.invalid]]", "\"invalid\"=invalid">>,
      TelegrafRequestsCPU :> "12x" }

AnnotationSets ==
    BaseAnnotations \cup
    { (IstioSidecarAnnotation :> "{\"version\":\"1\"}") @@ a : a \in BaseAnnotations }

\* a container of the pod's own, and the sidecars of an earlier admission
Container(name, image) ==
    [ name |-> name, image |-> image, command |-> <<>>,
      requests |-> <<>>, limits |-> <<>>, volumeMount |-> "" ]

FreshBody == [containers |-> <<Container("busybox", "busybox")>>, volumes |-> <<>>]

InjectedBodies ==
    { [ containers |-> <<Container("busybox", "busybox"), Container(c, "telegraf:1.18")>>,
        volumes    |-> <<newVolume(n, c)>> ] :
        n \in PodNames, c \in {"telegraf", "telegraf-istio"} }

Pod(name, annotations, body) ==
    [ name |-> name, annotations |-> annotations,
      containers |-> body.containers, volumes |-> body.volumes ]

\* the pods of create requests
NewPods == { Pod(n, a, FreshBody) : n \in PodNames, a \in AnnotationSets }

\* the pods of update requests: they went through an admission before
InjectedPods ==
    { Pod(n, a, b) : n \in PodNames, a \in AnnotationSets, b \in InjectedBodies }

Request(op, name, object) == [op |-> op, name |-> name, object |-> object]

NoRequest == Request("NONE", "", <<>>)

\* the last API call of a request that may meet an upstream failure
MaxFailAt == 3

\* secrets of other owners under the operator's secret names
ForeignSecrets ==
    { [ name |-> n, type |-> k[1], annotations |-> <<>>, labels |-> <<>>, data |-> k[2] ] :
        n \in SecretNames,
        k \in { <<"kubernetes.io/tls", TelegrafSecretDataKey :> <<"[agent]", "">> >>,
                <<"Opaque", TelegrafSecretDataKey :> <<"[agent]", "">> @@ "token" :> <<"t">> >>,
                <<"Opaque", TelegrafSecretDataKey :> <<"[agent]", "">> >>,
                <<"Opaque", TelegrafSecretDataKey :> EmptyText>> } }

NoResponse == Response(TRUE, 200, "none", "", <<>>)

Init ==
    /\ secrets = <<>>
    /\ classes \in ClassDirectories
    /\ cfg \in OperatorSettings
    /\ req = NoRequest
    /\ resp = NoResponse
    /\ calls = <<>>
    /\ pods = <<>>
    /\ pass = NoPass
    /\ WatcherCreated
    /\ call = NoCall

\* Handle returns out for the request r
Answer(r, out) ==
    /\ req' = r
    /\ resp' = out.resp
    /\ secrets' = out.store
    /\ calls' = out.calls
    /\ UNCHANGED <<classes, cfg, pods, pass, watcherVars, call>>

\* Handle answers the request r after its API call failAt has failed
AnswerFailed(r, failAt, out) == failAt <= Len(out.calls) /\ Answer(r, out)

\* the create requests (with no pod when the request cannot be decoded)
CreateRequests ==
    { Request("CREATE", p.name, <<p>>) : p \in NewPods } \cup { Request("CREATE", "", <<>>) }

\* the update requests
UpdateRequests == { Request("UPDATE", p.name, <<p>>) : p \in InjectedPods }

\* the delete requests
DeleteRequests == { Request("DELETE", n, <<>>) : n \in PodNames }

\* a create admission request, every API call answered by the API server
HandleCreate ==
    \E r \in CreateRequests : Answer(r, HandleOutcome(cfg, classes, secrets, r, 0))

\* an update admission request, likewise
HandleUpdate ==
    \E r \in UpdateRequests : Answer(r, HandleOutcome(cfg, classes, secrets, r, 0))

\* a delete admission request, likewise
HandleDelete ==
    \E r \in DeleteRequests : Answer(r, HandleOutcome(cfg, classes, secrets, r, 0))

\* an admission request one of whose API calls meets an upstream failure
HandleWithUpstreamFailure ==
    \E r \in CreateRequests \cup UpdateRequests \cup DeleteRequests, failAt \in 1..MaxFailAt :
        AnswerFailed(r, failAt, HandleOutcome(cfg, classes, secrets, r, failAt))

\* somebody else creates or replaces a secret
ExternalSecretWrite ==
    \E obj \in ForeignSecrets :
        /\ secrets' = (obj.name :> obj) @@ secrets
        /\ req' = NoRequest
        /\ resp' = NoResponse
        /\ calls' = <<>>
        /\ UNCHANGED <<classes, cfg, pods, pass, watcherVars, call>>

\* the classes directory is edited
ClassDataChange ==
    \E dir \in ClassDirectories \ {classes} :
        /\ classes' = dir
        /\ req' = NoRequest
        /\ resp' = NoResponse
        /\ calls' = <<>>
        /\ UNCHANGED <<secrets, cfg, pods, pass, watcherVars, call>>

Next ==
    \/ HandleCreate
    \/ HandleUpdate
    \/ HandleDelete
    \/ ExternalSecretWrite
    \/ ClassDataChange

\* the API server answers every call
Spec == Init /\ [][Next]_vars

NextUpstream == Next \/ HandleWithUpstreamFailure

\* any one API call of a request may fail
SpecUpstream == Init /\ [][NextUpstream]_vars

-----------------------------------------------------------------------------
(* The cluster the reconciler runs in                                      *)

ClassBasicEdited == <<"[[outputs.file]]", "  files = [\"stdout\", \"/tmp/metrics.out\"]">>

ClassBroken == <<"[[outputs.file]]", "  \"invalid\" = invalid">>

\* the contents the classes directory takes while the operator runs: the
\* files are validated when the operator starts and edited afterwards
RunningClassDirectories ==
    { ("basic" :> b) @@ i :
        b \in {ClassBasic, ClassBasicEdited, ClassBroken},
        i \in {<<>>, "istio" :> ClassIstio, "istio" :> ClassBroken} }

StartupClassDirectories ==
    { dir \in RunningClassDirectories : \A c \in DOMAIN dir : TomlParseOK(dir[c]) }

ReconcilerSettings ==
    { h \in OperatorSettings : h.RequestsCPU = "10m" /\ h.EnableIstioInjection }

\* the pods created while the reconciler runs
ReconciledPods ==
    { Pod(n, a, FreshBody) :
        n \in PodNames,
        a \in { TelegrafMetricsPort :> "8080",
                 TelegrafMetricsPort :> "8080" @@ IstioSidecarAnnotation :> "{}",
                 IstioSidecarAnnotation :> "{}",
                 TelegrafMetricsPort :> "8080"
                    @@ (TelegrafGlobalTagLiteralPrefix \o "env") :> "prod" } }

\* secrets somebody else writes under the operator's names and labels
LabeledSecrets ==
    { [ name |-> n, type |-> "Opaque", annotations |-> <<>>, labels |-> l, data |-> d ] :
        n \in SecretNames,
        l \in { TelegrafSecretLabelClassName :> "basic" @@ TelegrafSecretLabelPod :> "web",
                 TelegrafSecretLabelClassName :> "basic",
                 TelegrafSecretLabelClassName :> "" @@ TelegrafSecretLabelPod :> "web" },
        d \in { TelegrafSecretDataKey :> <<"invalid">>, <<>> } }

\* secrets somebody else writes under the operator's names without the
\* class-name label
UnlabeledSecrets ==
    { [ name |-> n, type |-> "Opaque", annotations |-> <<>>, labels |-> l,
        data |-> TelegrafSecretDataKey :> <<"invalid">> ] :
        n \in SecretNames,
        l \in { <<>>, TelegrafSecretLabelPod :> "web" } }

InitReconcile ==
    /\ secrets = <<>>
    /\ classes \in StartupClassDirectories
    /\ cfg \in ReconcilerSettings
    /\ req = NoRequest
    /\ resp = NoResponse
    /\ calls = <<>>
    /\ pods = <<>>
    /\ pass = NoPass
    /\ WatcherCreated
    /\ call = NoCall

\* the pod the API server stores once Handle has allowed its creation
AdmittedPod(r, response) == IF response.patch = <<>> THEN r.object[1] ELSE response.patch[1]

\* Handle returns out for the creation of a pod, which is then stored
AnswerAndStore(r, out) ==
    /\ req' = r
    /\ resp' = out.resp
    /\ secrets' = out.store
    /\ calls' = out.calls
    /\ pods' = IF out.resp.allowed
               THEN (r.name :> AdmittedPod(r, out.resp)) @@ pods ELSE pods
    /\ pass' = NoPass
    /\ UNCHANGED <<classes, cfg, watcherVars, call>>

\* a pod is created
PodCreated ==
    \E p \in ReconciledPods :
        /\ p.name \notin DOMAIN pods
        /\ AnswerAndStore(Request("CREATE", p.name, <<p>>),
                          HandleOutcome(cfg, classes, secrets,
                                        Request("CREATE", p.name, <<p>>), 0))

\* Handle returns out for the deletion of a pod, which is then removed
AnswerAndRemove(r, out) ==
    /\ req' = r
    /\ resp' = out.resp
    /\ secrets' = out.store
    /\ calls' = out.calls
    /\ pods' = [n \in DOMAIN pods \ {r.name} |-> pods[n]]
    /\ pass' = NoPass
    /\ UNCHANGED <<classes, cfg, watcherVars, call>>

\* a pod is deleted
PodDeleted ==
    \E n \in DOMAIN pods :
        AnswerAndRemove(Request("DELETE", n, <<>>),
                        HandleOutcome(cfg, classes, secrets, Request("DELETE", n, <<>>), 0))

\* a class file is edited while the operator runs
ClassFileEdited ==
    \E dir \in RunningClassDirectories \ {classes} :
        /\ classes' = dir
        /\ req' = NoRequest
        /\ resp' = NoResponse
        /\ calls' = <<>>
        /\ pass' = NoPass
        /\ UNCHANGED <<secrets, cfg, pods, watcherVars, call>>

\* somebody else writes a secret that carries the operator's labels
LabeledSecretWrite ==
    \E obj \in LabeledSecrets :
        /\ secrets' = (obj.name :> obj) @@ secrets
        /\ req' = NoRequest
        /\ resp' = NoResponse
        /\ calls' = <<>>
        /\ pass' = NoPass
        /\ UNCHANGED <<classes, cfg, pods, watcherVars, call>>

\* somebody else writes a secret that does not carry the class-name label
UnlabeledSecretWrite ==
    \E obj \in UnlabeledSecrets :
        /\ secrets' = (obj.name :> obj) @@ secrets
        /\ req' = NoRequest
        /\ resp' = NoResponse
        /\ calls' = <<>>
        /\ pass' = NoPass
        /\ UNCHANGED <<classes, cfg, pods, watcherVars, call>>

\* the reconciler's pass returns out
PassDone(out) ==
    /\ secrets' = out.store
    /\ pass' = [err |-> out.err, calls |-> out.calls]
    /\ req' = NoRequest
    /\ resp' = NoResponse
    /\ calls' = <<>>
    /\ UNCHANGED <<classes, cfg, pods, watcherVars, call>>

\* the reconciler's callback runs, every API call answered by the API server
OnChange == PassDone(onChange(cfg, classes, pods, secrets, 0))

NextReconcile ==
    \/ PodCreated
    \/ PodDeleted
    \/ ClassFileEdited
    \/ LabeledSecretWrite
    \/ UnlabeledSecretWrite
    \/ OnChange

\* admission and the reconciler at work on the same cluster
SpecReconcile == InitReconcile /\ [][NextReconcile]_vars

\* the API calls of a pass that may meet an upstream failure
MaxPassFailAt == 7

\* the reconciler's callback runs and one of its API calls fails upstream
OnChangeWithUpstreamFailure ==
    \E failAt \in 1..MaxPassFailAt :
        PassDone(onChange(cfg, classes, pods, secrets, failAt))

NextReconcileUpstream ==
    \/ NextReconcile
    \/ OnChangeWithUpstreamFailure

\* the same cluster with an API server that may fail one call of a pass
SpecReconcileUpstream == InitReconcile /\ [][NextReconcileUpstream]_vars

-----------------------------------------------------------------------------
(* The watcher at work                                                     *)

\* the raw notifications and the bursts of a behaviour
MaxNotifications == 6

MaxBursts == 3

InitWatcher ==
    /\ secrets = <<>>
    /\ classes = ("basic" :> ClassBasic)
    /\ cfg \in ReconcilerSettings
    /\ req = NoRequest
    /\ resp = NoResponse
    /\ calls = <<>>
    /\ pods = <<>>
    /\ pass = NoPass
    /\ WatcherCreated
    /\ call = NoCall

\* fsnotify queues a raw notification of the burst numbered burst; begins
\* tells that it is the first one of its burst. A burst is separated when it
\* begins after the callback of the burst before has returned.
Notified(burst, begins) ==
    /\ watcher' = [watcher EXCEPT !.watcherEvents = Append(@, burst)]
    /\ observed' = [observed EXCEPT
                       !.notified = @ + 1,
                       !.bursts = burst,
                       !.separated = @ /\ (~begins \/ observed.returned >= burst - 1)]
    /\ UNCHANGED <<listener, debouncer, clusterVars, call>>

\* one more notification of the current burst
NotifyInBurst ==
    /\ observed.bursts >= 1
    /\ observed.notified < MaxNotifications
    /\ Notified(observed.bursts, FALSE)

\* the first notification of a new burst
NotifyNewBurst ==
    /\ observed.bursts < MaxBursts
    /\ observed.notified < MaxNotifications
    /\ Notified(observed.bursts + 1, TRUE)

\* monitorForChanges receives a raw notification
ListenerReceive ==
    /\ listener.pc = "receive"
    /\ watcher.watcherEvents # <<>>
    /\ listener' = [pc |-> "count", burst |-> Head(watcher.watcherEvents)]
    /\ watcher' = [watcher EXCEPT !.watcherEvents = Tail(@)]
    /\ UNCHANGED <<debouncer, observed, clusterVars, call>>

\* monitorForChanges as it would be if it sent the signal without having
\* incremented the counter (what C28 rules out)
ListenerCount_NoIncrement ==
    /\ listener.pc = "count"
    /\ listener' = [listener EXCEPT !.pc = "send"]
    /\ UNCHANGED <<watcher, observed, debouncer, clusterVars, call>>

\* monitorForChanges increments the counter; the notification is counted in
\* the window of its burst when the debouncer has not yet read the counter
\* again for that burst
ListenerCount ==
    /\ listener.pc = "count"
    /\ watcher' = [watcher EXCEPT !.eventCount = @ + 1]
    /\ listener' = [listener EXCEPT !.pc = "send"]
    /\ observed' = [observed EXCEPT
                       !.inWindow = @ /\ observed.rereads < listener.burst,
                       !.unanswered = @ + 1]
    /\ UNCHANGED <<debouncer, clusterVars, call>>

\* monitorForChanges sends the signal; it blocks while the channel is full
ListenerSend ==
    /\ listener.pc = "send"
    /\ watcher.eventChannel < EventChannelCapacity
    /\ watcher' = [watcher EXCEPT !.eventChannel = @ + 1]
    /\ listener' = [pc |-> "receive", burst |-> 0]
    /\ UNCHANGED <<debouncer, observed, clusterVars, call>>

\* batchChanges as it would be if it went on to read the counter without
\* taking the signal out of the channel (what C40 rules out)
DebouncerDequeue_NoReceive ==
    /\ debouncer.pc = "range"
    /\ watcher.eventChannel > 0
    /\ debouncer' = [debouncer EXCEPT !.pc = "load"]
    /\ UNCHANGED <<watcher, listener, observed, clusterVars, call>>

\* batchChanges receives a signal
DebouncerDequeue ==
    /\ debouncer.pc = "range"
    /\ watcher.eventChannel > 0
    /\ watcher' = [watcher EXCEPT !.eventChannel = @ - 1]
    /\ debouncer' = [debouncer EXCEPT !.pc = "load"]
    /\ UNCHANGED <<listener, observed, clusterVars, call>>

\* batchChanges reads the counter and compares it
DebouncerLoad ==
    /\ debouncer.pc = "load"
    /\ debouncer' = loadEventCount(debouncer, watcher.eventCount)
    /\ observed' = [observed EXCEPT !.loaded = watcher.eventCount]
    /\ UNCHANGED <<watcher, listener, clusterVars, call>>

\* the sleep of batchChanges ends and the counter is read again
DebouncerWake ==
    /\ debouncer.pc = "sleep"
    /\ debouncer' = reloadEventCount(debouncer, watcher.eventCount)
    /\ observed' = [observed EXCEPT
                       !.rereads = @ + 1,
                       !.quiet = (watcher.eventCount = debouncer.currentEventCount)]
    /\ UNCHANGED <<watcher, listener, clusterVars, call>>

\* batchChanges as it would be if it started onChange in a goroutine of its
\* own and went on to the next signal (what C22 rules out)
DebouncerInvoke_Go ==
    /\ debouncer.pc = "invoke"
    /\ debouncer' = callbackReturned(debouncer)
    /\ observed' = [observed EXCEPT !.callbacks = @ + 1, !.unanswered = 0]
    /\ UNCHANGED <<watcher, listener, clusterVars, call>>

\* batchChanges calls onChange
DebouncerInvoke ==
    /\ debouncer.pc = "invoke"
    /\ debouncer' = [debouncer EXCEPT !.pc = "callback"]
    /\ observed' = [observed EXCEPT !.callbacks = @ + 1, !.unanswered = 0]
    /\ UNCHANGED <<watcher, listener, clusterVars, call>>

\* onChange returns
DebouncerReturn ==
    /\ debouncer.pc = "callback"
    /\ debouncer' = callbackReturned(debouncer)
    /\ observed' = [observed EXCEPT !.returned = @ + 1]
    /\ UNCHANGED <<watcher, listener, clusterVars, call>>

NextWatcher ==
    \/ NotifyInBurst
    \/ NotifyNewBurst
    \/ ListenerReceive
    \/ ListenerCount
    \/ ListenerSend
    \/ DebouncerDequeue
    \/ DebouncerLoad
    \/ DebouncerWake
    \/ DebouncerInvoke
    \/ DebouncerReturn

\* the two goroutines of the watcher and the notifications of fsnotify
SpecWatcher == InitWatcher /\ [][NextWatcher]_vars

\* The goroutines of the watcher are scheduled fairly: a goroutine that can
\* take its next step takes it; time.Sleep ends and onChange returns. The
\* notifications of fsnotify come as they may.
FairWatcher ==
    /\ WF_vars(ListenerReceive)
    /\ WF_vars(ListenerCount)
    /\ WF_vars(ListenerSend)
    /\ WF_vars(DebouncerDequeue)
    /\ WF_vars(DebouncerLoad)
    /\ WF_vars(DebouncerWake)
    /\ WF_vars(DebouncerInvoke)
    /\ WF_vars(DebouncerReturn)

SpecWatcherFair == SpecWatcher /\ FairWatcher

\* The watcher while the first call of onChange is still running and the
\* signals of the notifications counted since then fill eventChannel but
\* for two places: the first notification was taken in by batchChanges,
\* every later one left a signal in the channel. The history is kept from
\* this state on.
WatcherBehind ==
    /\ watcher = [ eventCount |-> EventChannelCapacity - 1,
                   eventChannel |-> EventChannelCapacity - 2,
                   watcherEvents |-> <<>> ]
    /\ listener = [pc |-> "receive", burst |-> 0]
    /\ debouncer = Debouncer("callback", 1, 0)
    /\ observed = [ notified |-> 0, bursts |-> 0, rereads |-> 0, callbacks |-> 0,
                    returned |-> 0, separated |-> TRUE, inWindow |-> TRUE,
                    loaded |-> 1, quiet |-> TRUE, unanswered |-> 0 ]

InitWatcherBehind ==
    /\ secrets = <<>>
    /\ classes = ("basic" :> ClassBasic)
    /\ cfg \in ReconcilerSettings
    /\ req = NoRequest
    /\ resp = NoResponse
    /\ calls = <<>>
    /\ pods = <<>>
    /\ pass = NoPass
    /\ WatcherBehind
    /\ call = NoCall

\* the notifications that follow while the channel is nearly full
MaxNotificationsBehind == 3

\* fsnotify queues one more notification of the burst that filled the
\* channel
NotifyWhenBehind ==
    /\ observed.notified < MaxNotificationsBehind
    /\ Notified(1, FALSE)

NextWatcherBehind ==
    \/ NotifyWhenBehind
    \/ ListenerReceive
    \/ ListenerCount
    \/ ListenerSend
    \/ DebouncerDequeue
    \/ DebouncerLoad
    \/ DebouncerWake
    \/ DebouncerInvoke
    \/ DebouncerReturn

\* the watcher from a nearly full channel on
SpecWatcherBehind == InitWatcherBehind /\ [][NextWatcherBehind]_vars

SpecWatcherBehindFair == SpecWatcherBehind /\ FairWatcher

-----------------------------------------------------------------------------
(* The functions of sidecar.go called on their own                         *)

\* the port annotations of a pod: single is the port annotation (or nothing),
\* listed the list its ports annotation is written from (empty: no ports
\* annotation)
PortAnnotations(single, listed) ==
    single @@ (IF listed = <<>> THEN <<>>
               ELSE TelegrafMetricsPorts :> StringsJoin(listed, ","))

SinglePorts ==
    {<<>>} \cup { TelegrafMetricsPort :> PortsInOrder[i] : i \in DOMAIN PortsInOrder }

\* the calls of ports to make
PortsCalls ==
    { [ fn |-> "ports", done |-> FALSE, single |-> single, listed |-> listed,
        pod |-> Pod("web", PortAnnotations(single, listed), FreshBody) ] :
        single \in SinglePorts, listed \in {<<>>} \cup PortLists }

\* a class text with a global tags section of its own
ClassWithGlobalTags ==
    << "[global_tags]", "  dc = \"us-east\"", "[[outputs.file]]", "  files = [\"stdout\"]" >>

\* a class text whose global tags section is named in a comment above it
ClassWithCommentedGlobalTags ==
    << "# tags are set under [global_tags]" >> \o ClassWithGlobalTags

\* the annotations assembleConf reads, one choice of each
AssembleAnnotations ==
    { p @@ i @@ r @@ t :
        p \in { <<>>, TelegrafMetricsPort :> "8080",
                 TelegrafMetricsPorts :> "8080,6060" },
        i \in { <<>>, TelegrafEnableInternal :> "true",
                 TelegrafEnableInternal :> "false", TelegrafEnableInternal :> "maybe" },
        r \in { <<>>, TelegrafRawInput :> <<"[[inputs.cpu]]", "  percpu = true">> },
        t \in { <<>>, (TelegrafGlobalTagLiteralPrefix \o "env") :> "prod",
                 (TelegrafGlobalTagLiteralPrefix \o "env") :> "prod"
                    @@ (TelegrafGlobalTagLiteralPrefix \o "app") :> "web" } }

\* the calls of assembleConf to make
AssembleCalls ==
    { [ fn |-> "assembleConf", done |-> FALSE,
        h |-> [cfg0 EXCEPT !.EnableDefaultInternalPlugin = internal],
        cls |-> ("basic" :> c), pod |-> Pod("web", a, FreshBody), className |-> "basic" ] :
        cfg0 \in {h \in ReconcilerSettings : h.RequireAnnotationsForSecret},
        internal \in BOOLEAN,
        c \in {ClassBasic, ClassWithGlobalTags, ClassWithCommentedGlobalTags},
        a \in AssembleAnnotations }

\* the values the annotation of one resource takes: none, a quantity other
\* than the default, no quantity, the empty string
QuantityAnnotations(key, quantity) ==
    { <<>>, key :> quantity, key :> "12x", key :> "" }

\* the calls of newContainer to make
ContainerCalls ==
    { [ fn |-> "newContainer", done |-> FALSE, h |-> h, containerName |-> "telegraf",
        pod |-> Pod("web", rc @@ rm @@ lc @@ lm, FreshBody) ] :
        h \in {o \in OperatorSettings : o.EnableIstioInjection /\ o.RequireAnnotationsForSecret},
        rc \in QuantityAnnotations(TelegrafRequestsCPU, "50m"),
        rm \in QuantityAnnotations(TelegrafRequestsMemory, "200Mi"),
        lc \in QuantityAnnotations(TelegrafLimitsCPU, "50m"),
        lm \in QuantityAnnotations(TelegrafLimitsMemory, "10Mi") }

\* the container names addSidecars passes on, in order
SidecarContainerNames == <<"telegraf", "telegraf-istio">>

\* pod names, some of them made of the words the secret names are made of
CalledPodNames == {"web", "db", "config-web", "istio-web", "istio-config-web"}

\* the calls of the name functions to make, each for two pod names
SecretNameCalls ==
    { [fn |-> "telegrafSecretNames", done |-> FALSE, name |-> n, other |-> o] :
        n \in CalledPodNames, o \in CalledPodNames }

\* the names the delete path targets for a pod name (deletes) and the names
\* of the secrets and of the volumes' secrets the admission path builds for
\* it (creates, mounts)
secretNamesOf(name) ==
    [ deletes |-> telegrafSecretNames(name),
      creates |-> [i \in DOMAIN SidecarContainerNames |->
                     newSecret("basic", name, SidecarContainerNames[i], EmptyText).name],
      mounts  |-> [i \in DOMAIN SidecarContainerNames |->
                     newVolume(name, SidecarContainerNames[i]).secretName] ]

InitCalls ==
    /\ secrets = <<>>
    /\ classes = ("basic" :> ClassBasic)
    /\ cfg \in {h \in ReconcilerSettings : h.RequireAnnotationsForSecret}
    /\ req = NoRequest
    /\ resp = NoResponse
    /\ calls = <<>>
    /\ pods = <<>>
    /\ pass = NoPass
    /\ WatcherCreated
    /\ call \in PortsCalls \cup AssembleCalls \cup ContainerCalls \cup SecretNameCalls

\* the call returns result
Returned(result) ==
    /\ call' = [fn |-> call.fn, done |-> TRUE, args |-> call, result |-> result]
    /\ UNCHANGED <<clusterVars, watcherVars>>

\* ports is called for a pod
CallPorts ==
    /\ call.fn = "ports"
    /\ ~call.done
    /\ Returned(ports(call.pod))

\* assembleConf is called for a pod and a class
CallAssembleConf ==
    /\ call.fn = "assembleConf"
    /\ ~call.done
    /\ Returned(assembleConf(call.h, call.cls, call.pod, call.className))

\* newContainer is called for a pod
CallNewContainer ==
    /\ call.fn = "newContainer"
    /\ ~call.done
    /\ Returned(newContainer(call.h, call.pod, call.containerName))

\* the name functions are called for two pod names
CallTelegrafSecretNames ==
    /\ call.fn = "telegrafSecretNames"
    /\ ~call.done
    /\ Returned(<<secretNamesOf(call.name), secretNamesOf(call.other)>>)

NextCalls ==
    \/ CallPorts
    \/ CallAssembleConf
    \/ CallNewContainer
    \/ CallTelegrafSecretNames

\* the functions applied to the inputs of the model
SpecCalls == InitCalls /\ [][NextCalls]_vars

-----------------------------------------------------------------------------
(* createOrUpdateSecrets among other writers of the same secrets           *)

\* createOrUpdateSecrets between two API calls: pc is "create", "get",
\* "update" or "return"; list holds the secrets still to write, its head
\* being the one at hand; existingSecret is what Get returned; err is as in
\* SecretsOutcome
SecretsCall(pc, list, existingSecret, err) ==
    [ fn |-> "createOrUpdateSecrets", done |-> pc = "return", pc |-> pc,
      list |-> list, existingSecret |-> existingSecret, err |-> err ]

\* the loop goes on to the next secret, or the function returns nil
nextSecret(list) ==
    IF list = <<>> THEN SecretsCall("return", <<>>, <<>>, "none")
    ELSE SecretsCall("create", list, <<>>, "none")

\* the secret lists Handle passes for the pods of create requests
SecretLists(h, cls) ==
    { addSidecars(h, cls, p, p.name).secrets :
        p \in { q \in NewPods : /\ addSidecars(h, cls, q, q.name).err = "none"
                                 /\ addSidecars(h, cls, q, q.name).secrets # <<>> } }

\* the secrets the other writers store: those of other owners, and those an
\* admission of the operator stores
WrittenByOthers(h, cls) ==
    ForeignSecrets
      \cup UNION { { Stored(l[i]) : i \in DOMAIN l } : l \in SecretLists(h, cls) }

InitWriters ==
    /\ secrets = <<>>
    /\ classes = ("basic" :> ClassBasic) @@ ("istio" :> ClassIstio)
    /\ cfg \in { h \in OperatorSettings : h.RequestsCPU = "10m" }
    /\ req = NoRequest
    /\ resp = NoResponse
    /\ calls = <<>>
    /\ pods = <<>>
    /\ pass = NoPass
    /\ WatcherCreated
    /\ call \in { nextSecret(l) : l \in SecretLists(cfg, classes) }

\* the API server has answered a call of createOrUpdateSecrets
SecretsCallAnswered(verb, result, store, next) ==
    /\ calls' = Append(calls, ApiCall(verb, Head(call.list).name, result, next.existingSecret))
    /\ secrets' = store
    /\ call' = next
    /\ UNCHANGED <<classes, cfg, req, resp, pods, pass, watcherVars>>

\* a.client.Create(ctx, secret)
SecretCreate ==
    /\ call.fn = "createOrUpdateSecrets"
    /\ call.pc = "create"
    /\ IF Head(call.list).name \in DOMAIN secrets
       THEN SecretsCallAnswered("create", "AlreadyExists", secrets,
                                SecretsCall("get", call.list, <<>>, "none"))
       ELSE SecretsCallAnswered("create", "ok",
                                (Head(call.list).name :> Stored(Head(call.list))) @@ secrets,
                                nextSecret(Tail(call.list)))

\* a.client.Get(ctx, namespacedName, existingSecret) and the managed check
SecretGet ==
    /\ call.fn = "createOrUpdateSecrets"
    /\ call.pc = "get"
    /\ IF Head(call.list).name \notin DOMAIN secrets
       THEN SecretsCallAnswered("get", "NotFound", secrets,
                                SecretsCall("return", call.list, <<>>, "api"))
       ELSE IF ~isSecretManagedByTelegrafOperator(cfg, secrets[Head(call.list).name])
       THEN SecretsCallAnswered("get", "ok", secrets,
                                SecretsCall("return", call.list,
                                            <<secrets[Head(call.list).name]>>, "conflict"))
       ELSE SecretsCallAnswered("get", "ok", secrets,
                                SecretsCall("update", call.list,
                                            <<secrets[Head(call.list).name]>>, "none"))

\* a.client.Update(ctx, secret): the object sent carries no resource
\* version, the API server replaces whatever it stores under the name
SecretUpdate ==
    /\ call.fn = "createOrUpdateSecrets"
    /\ call.pc = "update"
    /\ IF Head(call.list).name \notin DOMAIN secrets
       THEN SecretsCallAnswered("update", "NotFound", secrets,
                                SecretsCall("return", call.list, <<>>, "api"))
       ELSE SecretsCallAnswered("update", "ok",
                                (Head(call.list).name :> Stored(Head(call.list))) @@ secrets,
                                nextSecret(Tail(call.list)))

\* somebody else creates or replaces a secret while createOrUpdateSecrets
\* runs
OtherWriterWrites ==
    /\ call.fn = "createOrUpdateSecrets"
    /\ ~call.done
    /\ \E obj \in WrittenByOthers(cfg, classes) :
          /\ IF obj.name \in DOMAIN secrets THEN secrets[obj.name] # obj ELSE TRUE
          /\ secrets' = (obj.name :> obj) @@ secrets
    /\ UNCHANGED <<classes, cfg, req, resp, calls, pods, pass, watcherVars, call>>

NextWriters ==
    \/ SecretCreate
    \/ SecretGet
    \/ SecretUpdate
    \/ OtherWriterWrites

\* createOrUpdateSecrets, call by call, and the other writers of its secrets
SpecWriters == InitWriters /\ [][NextWriters]_vars

-----------------------------------------------------------------------------
(* onChange, one listed secret at a time, while class files are edited     *)

\* onChange between two API calls: pc is "idle" (batchChanges waits for the
\* next signal) or "visit" (the loop of updateSecretsInNamespace is at the
\* head of todo, the listed secrets still to visit)
PassCall(pc, todo) == [fn |-> "onChange", done |-> pc = "idle", pc |-> pc, todo |-> todo]

\* the pod of the cluster
PodWeb == Pod("web", TelegrafMetricsPort :> "8080", FreshBody)

\* the secret called n as the last pass left it: it carries both labels and
\* the text rendered from the class directory cls
LeftByPass(h, cls, n) ==
    [ name |-> n, type |-> "Opaque", annotations |-> <<>>,
      labels |-> (TelegrafSecretLabelClassName :> "basic"
                    @@ TelegrafSecretLabelPod :> PodWeb.name),
      data |-> (TelegrafSecretDataKey :> assembleConf(h, cls, PodWeb, "basic").conf) ]

\* labeled secrets called n that fail in every pass: the pod label is
\* missing, or it names a pod that no longer exists
FailingInEveryPass(n) ==
    { [ name |-> n, type |-> "Opaque", annotations |-> <<>>, labels |-> l,
        data |-> (TelegrafSecretDataKey :> <<"invalid">>) ] :
        l \in { TelegrafSecretLabelClassName :> "basic",
                 TelegrafSecretLabelClassName :> "basic"
                    @@ TelegrafSecretLabelPod :> "gone" } }

\* the stores the cluster holds when a class file is about to be edited
StoresBetweenPasses(h, cls) ==
    { (SecretNamesInOrder[1] :> first) @@ second :
        first \in {LeftByPass(h, cls, SecretNamesInOrder[1])}
                     \cup FailingInEveryPass(SecretNamesInOrder[1]),
        second \in { <<>> }
                     \cup { SecretNamesInOrder[2] :> o :
                              o \in {LeftByPass(h, cls, SecretNamesInOrder[2])}
                                      \cup FailingInEveryPass(SecretNamesInOrder[2]) } }

InitPasses ==
    /\ classes \in StartupClassDirectories
    /\ cfg \in ReconcilerSettings
    /\ secrets \in StoresBetweenPasses(cfg, classes)
    /\ req = NoRequest
    /\ resp = NoResponse
    /\ calls = <<>>
    /\ pods = (PodWeb.name :> PodWeb)
    /\ pass = NoPass
    /\ WatcherCreated
    /\ call = PassCall("idle", <<>>)

\* a class file is edited, at any moment of a pass
ClassFileEditedDuringPass ==
    \E dir \in RunningClassDirectories \ {classes} :
        /\ classes' = dir
        /\ UNCHANGED <<secrets, cfg, req, resp, calls, pods, pass, watcherVars, call>>

\* onChange is called: the namespaces are listed, then the labeled secrets
\* of the first one
PassBegins ==
    /\ call.pc = "idle"
    /\ call' = PassCall("visit", listSecrets(inNamespace(secrets, Head(NamespacesInOrder))))
    /\ pass' = [ err |-> "none",
                 calls |-> << ApiCall("list-namespaces", "", "ok", <<>>),
                              ApiCall("list-secrets", Head(NamespacesInOrder), "ok", <<>>) >> ]
    /\ UNCHANGED <<secrets, classes, cfg, req, resp, calls, pods, watcherVars>>

\* the loop body has returned out for the secret at the head of todo
SecretVisited(out) ==
    /\ secrets' = out.store
    /\ pass' = [err |-> out.err, calls |-> out.calls]
    /\ call' = IF out.err = "none" THEN PassCall("visit", Tail(call.todo))
               ELSE PassCall("idle", <<>>)
    /\ UNCHANGED <<classes, cfg, req, resp, calls, pods, watcherVars>>

\* the loop of updateSecretsInNamespace visits the next listed secret
PassVisits ==
    /\ call.pc = "visit"
    /\ call.todo # <<>>
    /\ SecretVisited(updateSecret(cfg, classes, pods, secrets, secrets[Head(call.todo)],
                                  MapGet(secrets[Head(call.todo)].labels,
                                         TelegrafSecretLabelPod),
                                  MapGet(secrets[Head(call.todo)].labels,
                                         TelegrafSecretLabelClassName),
                                  pass.calls, 0))

\* the loop is over: the other namespace holds no secret, onChange returns
PassEnds ==
    /\ call.pc = "visit"
    /\ call.todo = <<>>
    /\ call' = PassCall("idle", <<>>)
    /\ pass' = [pass EXCEPT !.calls =
                   Append(@, ApiCall("list-secrets", NamespacesInOrder[2], "ok", <<>>))]
    /\ UNCHANGED <<secrets, classes, cfg, req, resp, calls, pods, watcherVars>>

NextPasses ==
    \/ ClassFileEditedDuringPass
    \/ PassBegins
    \/ PassVisits
    \/ PassEnds

\* onChange, call by call, while class files are edited
SpecPasses == InitPasses /\ [][NextPasses]_vars

\* The watcher keeps calling onChange ("the next Watcher-triggered
\* invocation tries again from scratch"), and a pass that has begun runs on
\* to its return.
FairPasses ==
    /\ WF_vars(PassBegins)
    /\ WF_vars(PassVisits)
    /\ WF_vars(PassEnds)

SpecPassesFair == SpecPasses /\ FairPasses

-----------------------------------------------------------------------------
(* Admission requests in flight for pods of one name                       *)

\* the pods of one name the API server is asked to create
MaxPodInstances == 2

\* An admission request the API server has sent to the webhook: uid tells
\* the pod it is about; answered tells that Handle has returned, allowed
\* and object what it returned, wrote the secrets it wrote.
AdmissionEvent(op, name, uid, object) ==
    [ op |-> op, name |-> name, uid |-> uid, object |-> object,
      answered |-> FALSE, allowed |-> FALSE, wrote |-> {} ]

\* the admission requests in flight and the number of pods asked for so far
HandleCalls(inflight, issued) ==
    [fn |-> "Handle", done |-> inflight = {}, inflight |-> inflight, issued |-> issued]

\* a pod as the API server stores it: wrote names the secrets its
\* admissions wrote, deleteRequested tells that its deletion has been requested
StoredPod(uid, object, wrote, deleteRequested) ==
    [uid |-> uid, object |-> object, wrote |-> wrote, deleteRequested |-> deleteRequested]

\* the pods asked for: one the operator leaves alone, one that gets the
\* telegraf sidecar, one that gets both sidecars
RequestedPods ==
    { Pod(n, a, FreshBody) :
        n \in PodNames,
        a \in { <<>>,
                 TelegrafMetricsPort :> "8080",
                 TelegrafMetricsPort :> "8080"
                    @@ IstioSidecarAnnotation :> "{\"version\":\"1\"}" } }

InitAdmissions ==
    /\ secrets = <<>>
    /\ classes \in ClassDirectories
    /\ cfg \in OperatorSettings
    /\ req = NoRequest
    /\ resp = NoResponse
    /\ calls = <<>>
    /\ pods = <<>>
    /\ pass = NoPass
    /\ WatcherCreated
    /\ call = HandleCalls({}, 0)

\* the API server receives a request and calls the webhook, before it
\* reads or writes its own storage
Requested(e, issued, podStore) ==
    /\ call' = HandleCalls(call.inflight \cup {e}, issued)
    /\ pods' = podStore
    /\ UNCHANGED <<secrets, classes, cfg, req, resp, calls, pass, watcherVars>>

\* a request to create a pod arrives, whether or not a pod of the name is
\* stored
CreateRequested ==
    /\ call.issued < MaxPodInstances
    /\ \E p \in RequestedPods :
          Requested(AdmissionEvent("CREATE", p.name, call.issued + 1, <<p>>),
                 call.issued + 1, pods)

\* a request to update a stored pod arrives
UpdateRequested ==
    \E n \in DOMAIN pods :
        Requested(AdmissionEvent("UPDATE", n, pods[n].uid, <<pods[n].object>>),
               call.issued, pods)

\* a request to delete a stored pod arrives
DeleteRequested ==
    \E n \in DOMAIN pods :
        Requested(AdmissionEvent("DELETE", n, pods[n].uid, <<>>), call.issued,
               [pods EXCEPT ![n].deleteRequested = TRUE])

\* Handle returns out for the request e in flight
Handled(e, out) ==
    /\ req' = Request(e.op, e.name, e.object)
    /\ resp' = out.resp
    /\ secrets' = out.store
    /\ calls' = out.calls
    /\ call' = HandleCalls(
                  (call.inflight \ {e})
                    \cup { [e EXCEPT !.answered = TRUE,
                                     !.allowed = out.resp.allowed,
                                     !.object = IF out.resp.patch = <<>>
                                                THEN e.object ELSE out.resp.patch,
                                     !.wrote = { out.calls[i].name :
                                                   i \in { j \in DOMAIN out.calls :
                                                     /\ out.calls[j].verb \in {"create", "update"}
                                                     /\ out.calls[j].result = "ok" } }] },
                  call.issued)
    /\ UNCHANGED <<classes, cfg, pods, pass, watcherVars>>

\* Handle runs for one of the requests in flight, in any order
AdmissionHandled ==
    \E e \in call.inflight :
        /\ ~e.answered
        /\ Handled(e, HandleOutcome(cfg, classes, secrets,
                                    Request(e.op, e.name, e.object), 0))

\* what the API server stores once the webhook has answered the request e:
\* a created pod when the request is allowed and the name is free, an
\* updated pod when it is allowed and the pod is still stored, nothing of a
\* deleted pod
persisted(podStore, e) ==
    IF e.op = "CREATE"
    THEN IF e.allowed /\ e.object # <<>> /\ e.name \notin DOMAIN podStore
         THEN (e.name :> StoredPod(e.uid, e.object[1], e.wrote, FALSE)) @@ podStore
         ELSE podStore
    ELSE IF e.name \notin DOMAIN podStore THEN podStore
    ELSE IF podStore[e.name].uid # e.uid THEN podStore
    ELSE IF e.op = "DELETE" THEN [n \in DOMAIN podStore \ {e.name} |-> podStore[n]]
    ELSE IF e.allowed
         THEN [podStore EXCEPT ![e.name].object = e.object[1],
                               ![e.name].wrote = @ \cup e.wrote]
    ELSE podStore

\* the API server carries out a request the webhook has answered
AdmissionPersisted ==
    \E e \in call.inflight :
        /\ e.answered
        /\ call' = HandleCalls(call.inflight \ {e}, call.issued)
        /\ pods' = persisted(pods, e)
        /\ UNCHANGED <<secrets, classes, cfg, req, resp, calls, pass, watcherVars>>

NextAdmissions ==
    \/ CreateRequested
    \/ UpdateRequested
    \/ DeleteRequested
    \/ AdmissionHandled
    \/ AdmissionPersisted

\* the admission requests for pods of one name, handled in any order
SpecAdmissions == InitAdmissions /\ [][NextAdmissions]_vars

-----------------------------------------------------------------------------
(* Vocabulary of the properties                                            *)

\* Handle has just answered a create or update request that carries a pod
Admitted == req.op \in {"CREATE", "UPDATE"} /\ req.object # <<>>

ReqPod == req.object[1]

NoUpstreamFailure(trace) == \A i \in DOMAIN trace : trace[i].result # "error"

CountContainers(pod, name) ==
    Cardinality({i \in DOMAIN pod.containers : pod.containers[i].name = name})

CountVolumes(pod, name) ==
    Cardinality({i \in DOMAIN pod.volumes : pod.volumes[i].name = name})

\* the primary gate as the specification words it
PrimaryGate(pod) ==
    /\ CountContainers(pod, "telegraf") = 0
    /\ \E key \in DOMAIN pod.annotations : StringsContainsCommon(key)

\* the mesh gate as the specification words it
MeshGate(h, pod) ==
    /\ CountContainers(pod, "telegraf-istio") = 0
    /\ h.EnableIstioInjection
    /\ IstioSidecarAnnotation \in DOMAIN pod.annotations

\* a secret that is not managed, in the words of C1: its type is not Opaque,
\* or its data is not exactly the single key telegraf.conf
NotManagedShape(secret) ==
    secret.type # "Opaque" \/ DOMAIN secret.data # {TelegrafSecretDataKey}

\* the class the primary variant of a pod resolves to
PrimaryClass(h, pod) ==
    IF TelegrafClass \in DOMAIN pod.annotations
    THEN pod.annotations[TelegrafClass] ELSE h.TelegrafDefaultClass

\* the primary variant of a pod fails for its class data or its syntax
PrimaryFailsNonFatally(h, cls, pod) ==
    \/ PrimaryClass(h, pod) \notin DOMAIN cls
    \/ assembleConf(h, cls, pod, PrimaryClass(h, pod)).err = "toml"

\* the text the reconciler assembles for a listed secret whose pod exists
FreshFor(h, cls, podStore, secret) ==
    assembleConf(h, cls, podStore[secret.labels[TelegrafSecretLabelPod]],
                 secret.labels[TelegrafSecretLabelClassName])

\* the reconciler can assemble a text for the secret: it carries both labels,
\* its pod exists and assembleConf succeeds
HasFresh(h, cls, podStore, secret) ==
    /\ MapGet(secret.labels, TelegrafSecretLabelPod) # ""
    /\ MapGet(secret.labels, TelegrafSecretLabelClassName) # ""
    /\ secret.labels[TelegrafSecretLabelPod] \in DOMAIN podStore
    /\ FreshFor(h, cls, podStore, secret).err = "none"

StoredText(secret) == DataGet(secret.data, TelegrafSecretDataKey)

\* the number of pods a pass fetched: the i-th fetch is for the i-th listed
\* secret
PodsFetched(trace) ==
    Cardinality({i \in DOMAIN trace : trace[i].verb = "get-pod" /\ trace[i].result = "ok"})

UpdateIssued(trace, name) ==
    \E i \in DOMAIN trace : trace[i].verb = "update" /\ trace[i].name = name

\* a pass has just run
PassRan == pass'.calls # <<>>

\* the watcher has nothing left to do: no notification is queued or held,
\* no signal is queued, batchChanges waits at the channel
WatcherQuiet ==
    /\ watcher.watcherEvents = <<>>
    /\ watcher.eventChannel = 0
    /\ listener.pc = "receive"
    /\ debouncer.pc = "range"

\* the names of the stored secrets that carry the class-name label or not
LabeledNames(store) ==
    { n \in DOMAIN store : TelegrafSecretLabelClassName \in DOMAIN store[n].labels }

UnlabeledNames(store) == DOMAIN store \ LabeledNames(store)

\* the store without its secrets that lack the class-name label
LabeledOnly(store) == [n \in LabeledNames(store) |-> store[n]]

\* what a pass leaves in the variable pass
PassOf(out) == [err |-> out.err, calls |-> out.calls]

\* the pass returned an error
FailedPass(p) == p.err \in {"api", "labels", "assemble"}

\* the pod fetches of a pass, in order
Fetches(trace) == SelectSeq(trace, LAMBDA c : c.verb = "get-pod")

\* the last call of a trace is its only one that may have failed
OnlyLastMayFail(trace) == \A i \in 1..(Len(trace) - 1) : trace[i].result = "ok"

\* the pass failed at the secret whose pod it fetched last: the fetch, the
\* assembly or the update failed
FailedAtFetched(p) ==
    \/ p.err = "assemble"
    \/ p.err = "api" /\ p.calls[Len(p.calls)].verb \in {"get-pod", "update"}

\* the pass left the secret as it was and issued no update for it
Untouched(before, after, trace, name) ==
    /\ name \in DOMAIN after
    /\ after[name] = before[name]
    /\ ~UpdateIssued(trace, name)

\* the secret lacks a non-empty pod-name or class-name label
LacksLabel(secret) ==
    \/ MapGet(secret.labels, TelegrafSecretLabelPod) = ""
    \/ MapGet(secret.labels, TelegrafSecretLabelClassName) = ""

\* the store with the secrets named in names only
OnlyNamed(store, names) == [n \in DOMAIN store \cap names |-> store[n]]

\* the result of the pass over the first i - 1 secrets listed on their own
ErrBefore(h, cls, podStore, store, listed, i) ==
    onChange(h, cls, podStore, OnlyNamed(store, {listed[j] : j \in 1..(i - 1)}), 0).err

\* the names of the secrets a request wrote
WrittenNames(trace) ==
    { trace[i].name :
        i \in { j \in DOMAIN trace : /\ trace[j].verb \in {"create", "update"}
                                     /\ trace[j].result = "ok" } }

\* the text the mesh variant renders
IstioConf(h, cls) == istioInputsConf \o <<"">> \o cls[h.IstioOutputClass]

\* the configuration admission renders for the secret called name of a pod
RenderedFor(h, cls, pod, name) ==
    IF name = telegrafSecretNames(pod.name)[1]
    THEN assembleConf(h, cls, pod, PrimaryClass(h, pod)).conf
    ELSE IstioConf(h, cls)

\* the class admission resolves for the secret called name of a pod
ClassFor(h, pod, name) ==
    IF name = telegrafSecretNames(pod.name)[1]
    THEN PrimaryClass(h, pod) ELSE h.IstioOutputClass

\* the operator's settings with annotations required, or not, for secrets
WithStrictness(h, strict) == [h EXCEPT !.RequireAnnotationsForSecret = strict]

\* the bytes of the model's port strings
StringBytes(p) ==
    CASE p = "10000" -> <<49, 48, 48, 48, 48>>
      [] p = "6060"  -> <<54, 48, 54, 48>>
      [] p = "8080"  -> <<56, 48, 56, 48>>
      [] p = "app"   -> <<97, 112, 112>>
      [] p = "env"   -> <<101, 110, 118>>

RECURSIVE BytesLess(_, _)
\* Go's a < b on strings, byte by byte
BytesLess(a, b) ==
    IF b = <<>> THEN FALSE
    ELSE IF a = <<>> THEN TRUE
    ELSE IF a[1] # b[1] THEN a[1] < b[1]
    ELSE BytesLess(Tail(a), Tail(b))

StringLess(p, q) == BytesLess(StringBytes(p), StringBytes(q))

\* the ports the two annotations name
PortsNamed(single, listed) ==
    {single[k] : k \in DOMAIN single} \cup Elements(listed)

\* at least one scrape port is configured
HasScrapePort(ann) ==
    TelegrafMetricsPort \in DOMAIN ann \/ TelegrafMetricsPorts \in DOMAIN ann

\* the internal plugin is enabled: by the annotation when it is a boolean,
\* else by the operator's default
InternalEnabled(h, ann) ==
    IF TelegrafEnableInternal \in DOMAIN ann /\ ParseBoolOK(ann[TelegrafEnableInternal])
    THEN ParseBoolValue(ann[TelegrafEnableInternal])
    ELSE h.EnableDefaultInternalPlugin

\* the tag lines of the tag-literal annotations
TagLinesOf(ann) ==
    { "  " \o k \o " = \"" \o ann[TelegrafGlobalTagLiteralPrefix \o k] \o "\"" :
        k \in { key \in Elements(GlobalTagKeysInOrder) :
                  (TelegrafGlobalTagLiteralPrefix \o key) \in DOMAIN ann } }

\* a text without the lines of a set
WithoutLines(text, lines) == SelectSeq(text, LAMBDA l : l \notin lines)

HasLine(text, line) == \E i \in DOMAIN text : text[i] = line

\* the keys of the tag-literal annotations of a pod
TagKeysOf(ann) ==
    { k \in Elements(GlobalTagKeysInOrder) :
        (TelegrafGlobalTagLiteralPrefix \o k) \in DOMAIN ann }

\* the strings of a set in increasing order
Increasing(S) ==
    CHOOSE seq \in [1..Cardinality(S) -> S] :
        \A i, j \in DOMAIN seq : i < j => StringLess(seq[i], seq[j])

\* the tag lines generated for a pod, sorted by key
SortedTagLines(ann) ==
    [ i \in 1..Cardinality(TagKeysOf(ann)) |->
        "  " \o Increasing(TagKeysOf(ann))[i] \o " = \""
             \o ann[TelegrafGlobalTagLiteralPrefix \o Increasing(TagKeysOf(ann))[i]] \o "\"" ]

\* how many lines of the text are the line
Occurrences(text, line) == Cardinality({i \in DOMAIN text : text[i] = line})

\* the places of the text where a line ends with [global_tags]
HeaderPlaces(text) == { i \in DOMAIN text : text[i] \in GlobalTagsHeaderLines }

\* the quantity a ResourceList holds for a resource ("" when it holds none)
Resolved(list, resourceName) == MapGet(list, resourceName)

\* the annotation of a resource is a quantity
ParsesAsQuantity(ann, key) == key \in DOMAIN ann /\ ParseQuantityOK(ann[key])

\* the sequence after is the sequence before with entries appended
Appended(before, after) ==
    /\ Len(after) >= Len(before)
    /\ SubSeq(after, 1, Len(before)) = before

-----------------------------------------------------------------------------
(* C1 .. C10                                                               *)

\* C1: when the secret Handle is to create already exists and is not managed
\* (its type is not Opaque, its data is not exactly the key telegraf.conf, or
\* it fails the managed check otherwise), the request is rejected with HTTP
\* 400, the error is the ownership conflict unless an API call failed first,
\* and the existing secret is exactly what it was before the request.
C1_UnmanagedSecretRefused ==
    [][ \A i \in DOMAIN calls' :
          ( /\ calls'[i].verb = "create"
            /\ calls'[i].name \in DOMAIN secrets
            /\ \/ NotManagedShape(secrets[calls'[i].name])
               \/ ~isSecretManagedByTelegrafOperator(cfg, secrets[calls'[i].name]) )
          => /\ ~resp'.allowed
             /\ resp'.code = 400
             /\ resp'.patch = <<>>
             /\ NoUpstreamFailure(calls') => resp'.kind = "conflict"
             /\ calls'[i].name \in DOMAIN secrets'
             /\ secrets'[calls'[i].name] = secrets[calls'[i].name]
             /\ \A j \in DOMAIN calls' :
                   calls'[j].name = calls'[i].name => calls'[j].verb # "update"
      ]_vars

\* witness of C1: a request was refused for a secret of another type
C1_Witness ==
    /\ Admitted
    /\ resp.kind = "conflict"
    /\ \E i \in DOMAIN calls :
          /\ calls[i].verb = "get"
          /\ calls[i].result = "ok"
          /\ calls[i].seen[1].type # "Opaque"
          /\ secrets[calls[i].name] = calls[i].seen[1]

\* the verbs of the API calls of trace that name the secret n, in order
VerbsFor(trace, n) ==
    [i \in DOMAIN SelectSeq(trace, LAMBDA c : c.name = n) |->
        SelectSeq(trace, LAMBDA c : c.name = n)[i].verb]

\* what C2 says of the secrets todo of a request that met the store before,
\* left the store after, issued the calls trace and was answered response
C2_Outcome(h, todo, before, after, trace, response) ==
    (\A k \in DOMAIN todo :
        todo[k].name \in DOMAIN before =>
            isSecretManagedByTelegrafOperator(h, before[todo[k].name]))
    => /\ response.kind = "patch"
       /\ \A k \in DOMAIN todo :
            /\ todo[k].name \in DOMAIN after
            /\ after[todo[k].name].data =
                  (TelegrafSecretDataKey :> todo[k].stringData[TelegrafSecretDataKey])
            /\ VerbsFor(trace, todo[k].name) =
                  IF todo[k].name \in DOMAIN before
                  THEN <<"create", "get", "update">> ELSE <<"create">>

\* C2: createOrUpdateSecrets follows create -> get -> managed check ->
\* update: an update is only issued right after a get that returned the
\* stored secret and found it managed, itself right after a create that met
\* AlreadyExists; and when every secret of the request is absent or passes
\* the managed check and no API call fails, the request succeeds, an absent
\* secret is created by one create, a managed one is updated, and the stored
\* telegraf.conf equals the newly assembled configuration.
C2_CreateGetCheckUpdate ==
    [][ /\ \A j \in DOMAIN calls' :
              calls'[j].verb = "update" =>
                /\ j >= 3
                /\ calls'[j-1].verb = "get" /\ calls'[j-1].name = calls'[j].name
                /\ calls'[j-1].result = "ok"
                /\ calls'[j].name \in DOMAIN secrets
                /\ calls'[j-1].seen = <<secrets[calls'[j].name]>>
                /\ isSecretManagedByTelegrafOperator(cfg, secrets[calls'[j].name])
                /\ calls'[j-2].verb = "create" /\ calls'[j-2].name = calls'[j].name
                /\ calls'[j-2].result = "AlreadyExists"
        /\ ( /\ req'.op \in {"CREATE", "UPDATE"}
             /\ req'.object # <<>>
             /\ NoUpstreamFailure(calls')
             /\ resp'.kind \notin {"skip", "nonfatal", "sidecar"} )
           => C2_Outcome(cfg,
                addSidecars(cfg, classes, req'.object[1], req'.object[1].name).secrets,
                secrets, secrets', calls', resp')
      ]_vars

\* witness of C2: a request updated a managed secret to a new configuration
\* and created the other one
C2_Witness ==
    /\ Admitted
    /\ resp.kind = "patch"
    /\ Len(calls) = 4
    /\ calls[3].verb = "update" /\ calls[3].result = "ok"
    /\ calls[2].seen[1].data # secrets[calls[3].name].data
    /\ calls[4].verb = "create" /\ calls[4].result = "ok"

\* the three conditions of C3: Opaque type, exactly the key telegraf.conf,
\* and the managed-by annotation when annotations are required
ThreeConditions(h, secret) ==
    /\ secret.type = "Opaque"
    /\ DOMAIN secret.data = {TelegrafSecretDataKey}
    /\ h.RequireAnnotationsForSecret =>
          /\ TelegrafSecretAnnotationKey \in DOMAIN secret.annotations
          /\ secret.annotations[TelegrafSecretAnnotationKey] = TelegrafSecretAnnotationValue

\* C3: isSecretManagedByTelegrafOperator is true of a secret exactly when its
\* type is Opaque, its data has exactly the one key telegraf.conf, and (only
\* when RequireAnnotationsForSecret is set) its managed-by annotation is
\* telegraf-operator; checked of every secret the store holds.
C3_ManagedIffThreeConditions ==
    \A n \in DOMAIN secrets :
        isSecretManagedByTelegrafOperator(cfg, secrets[n]) <=> ThreeConditions(cfg, secrets[n])

\* C4: when the class data of a pod that passes the primary gate cannot be
\* resolved, or its assembled configuration does not parse, Handle allows the
\* request, returns no patch (no container or volume is added), makes no API
\* call and leaves every secret as it was.
C4_PrimaryFailureAllowsUnchanged ==
    [][ ( /\ req'.op \in {"CREATE", "UPDATE"}
          /\ req'.object # <<>>
          /\ PrimaryGate(req'.object[1])
          /\ PrimaryFailsNonFatally(cfg, classes, req'.object[1]) )
        => /\ resp'.allowed
           /\ resp'.code = 200
           /\ resp'.patch = <<>>
           /\ calls' = <<>>
           /\ secrets' = secrets
           /\ LET pod == req'.object[1]
              IN  addSidecars(cfg, classes, pod, pod.name).pod = pod
      ]_vars

\* witness of C4: a pod whose raw inputs do not parse was allowed without a
\* patch while the store held a secret
C4_Witness ==
    /\ Admitted
    /\ PrimaryGate(ReqPod)
    /\ assembleConf(cfg, classes, ReqPod, PrimaryClass(cfg, ReqPod)).err = "toml"
    /\ resp.kind = "nonfatal"
    /\ secrets # <<>>

\* the mesh variant of a pod fails for its class data
MeshFailsNonFatally(h, cls) == h.IstioOutputClass \notin DOMAIN cls

\* C5: when both gates are active, exactly one variant fails for its class
\* data or its syntax, and nothing else goes wrong, the pod is admitted with
\* the other variant's container and volume and without the failed one, and
\* the other variant's secret is stored.
C5_FailureFatalToOneVariantOnly ==
    ( /\ Admitted
      /\ PrimaryGate(ReqPod)
      /\ MeshGate(cfg, ReqPod)
      /\ PrimaryFailsNonFatally(cfg, classes, ReqPod) # MeshFailsNonFatally(cfg, classes)
      /\ ~newContainer(cfg, ReqPod, "telegraf").err
      /\ ~newIstioContainer(cfg, ReqPod, "telegraf-istio").err
      /\ NoUpstreamFailure(calls)
      /\ resp.kind # "conflict" )
    => LET failed == IF MeshFailsNonFatally(cfg, classes) THEN "telegraf-istio" ELSE "telegraf"
           other == IF MeshFailsNonFatally(cfg, classes) THEN "telegraf" ELSE "telegraf-istio"
       IN  /\ resp.allowed
           /\ resp.patch # <<>>
           /\ CountContainers(resp.patch[1], other) = 1
           /\ CountVolumes(resp.patch[1], other \o "-config") = 1
           /\ CountContainers(resp.patch[1], failed) = 0
           /\ (other \o "-config-" \o ReqPod.name) \in DOMAIN secrets

\* C6: a create or update request that carries a pod and meets no upstream
\* API failure is rejected only for an ownership conflict.
C6_OnlyConflictRejects ==
    (Admitted /\ NoUpstreamFailure(calls) /\ ~resp.allowed) => resp.kind = "conflict"

\* C7: a pod that passes neither the primary gate nor the mesh gate is
\* skipped: Handle allows the request without a patch, addSidecars would
\* leave the pod as it is, no API call is made and every secret stays as it
\* was.
C7_NeitherGateSkips ==
    [][ ( /\ req'.op \in {"CREATE", "UPDATE"}
          /\ req'.object # <<>>
          /\ ~PrimaryGate(req'.object[1])
          /\ ~MeshGate(cfg, req'.object[1]) )
        => /\ resp'.allowed
           /\ resp'.code = 200
           /\ resp'.patch = <<>>
           /\ calls' = <<>>
           /\ secrets' = secrets
           /\ LET pod == req'.object[1]
              IN  addSidecars(cfg, classes, pod, pod.name).pod = pod
      ]_vars

\* witness of C7: a pod of the mesh was skipped while the store held a secret
C7_Witness ==
    /\ Admitted
    /\ ~PrimaryGate(ReqPod)
    /\ ~MeshGate(cfg, ReqPod)
    /\ IstioSidecarAnnotation \in DOMAIN ReqPod.annotations
    /\ resp.kind = "skip"
    /\ secrets # <<>>

\* C8: addSidecars on a pod that already has a container named telegraf
\* appends no second telegraf container or volume and makes no telegraf
\* secret (so Handle makes no API call for one, and its patch holds no second
\* container), whatever the annotations; and addSidecars applied to the pod
\* it returned returns the same pod.
C8_NoSecondTelegraf ==
    Admitted =>
      LET pod == ReqPod
          once == addSidecars(cfg, classes, pod, pod.name)
          twice == addSidecars(cfg, classes, once.pod, pod.name)
          secretName == "telegraf-config-" \o pod.name
      IN  /\ twice.pod = once.pod
          /\ podHasContainerName(once.pod, "telegraf") =>
                \A k \in DOMAIN twice.secrets : twice.secrets[k].name # secretName
          /\ podHasContainerName(pod, "telegraf") =>
                /\ CountContainers(once.pod, "telegraf") = CountContainers(pod, "telegraf")
                /\ CountVolumes(once.pod, "telegraf-config") = CountVolumes(pod, "telegraf-config")
                /\ \A k \in DOMAIN once.secrets : once.secrets[k].name # secretName
                /\ \A i \in DOMAIN calls : calls[i].name # secretName
                /\ resp.patch # <<>> =>
                      CountContainers(resp.patch[1], "telegraf") = CountContainers(pod, "telegraf")

\* witness of C8: a pod with telegraf annotations and a telegraf container
\* went through Handle again and was patched (with the mesh sidecar only)
C8_Witness ==
    /\ Admitted
    /\ podHasContainerName(ReqPod, "telegraf")
    /\ \E key \in DOMAIN ReqPod.annotations : StringsContainsCommon(key)
    /\ resp.kind = "patch"
    /\ CountContainers(resp.patch[1], "telegraf") = 1
    /\ CountContainers(resp.patch[1], "telegraf-istio") = 1

\* C9: shouldAddIstioTelegrafSidecar is true of a pod if and only if the pod
\* has no container named telegraf-istio, EnableIstioInjection is set and the
\* pod has the sidecar.istio.io/status annotation; and addSidecars appends
\* the telegraf-istio container exactly when that gate is true and the istio
\* class resolves.
C9_MeshGateAndAppend ==
    Admitted =>
      LET pod == ReqPod
          result == addSidecars(cfg, classes, pod, pod.name)
          appended == CountContainers(result.pod, "telegraf-istio")
                        = CountContainers(pod, "telegraf-istio") + 1
      IN  /\ shouldAddIstioTelegrafSidecar(cfg, pod) <=> MeshGate(cfg, pod)
          /\ appended <=> (MeshGate(cfg, pod) /\ cfg.IstioOutputClass \in DOMAIN classes)

\* C10: for a delete request Handle issues a delete for telegraf-config-<pod>
\* and then one for telegraf-istio-config-<pod>, whatever the first returns;
\* the response allows the deletion and has no patch; a secret whose delete
\* succeeded is gone and every other secret stays as it was.
C10_DeleteBestEffort ==
    [][ req'.op = "DELETE" =>
          LET names == << "telegraf-config-" \o req'.name,
                          "telegraf-istio-config-" \o req'.name >>
              gone == { names[i] : i \in {j \in 1..2 : j \in DOMAIN calls' /\ calls'[j].result = "ok"} }
          IN  /\ Len(calls') = 2
              /\ \A i \in 1..2 : calls'[i].verb = "delete" /\ calls'[i].name = names[i]
              /\ \A i \in 1..2 : calls'[i].result = "ok" => names[i] \in DOMAIN secrets
              /\ resp'.allowed
              /\ resp'.code = 200
              /\ resp'.patch = <<>>
              /\ secrets' = [k \in DOMAIN secrets \ gone |-> secrets[k]]
      ]_vars

\* witness of C10: the first deletion met an upstream failure, the second
\* one deleted its secret, and the deletion of the pod was allowed
C10_Witness ==
    /\ req.op = "DELETE"
    /\ Len(calls) = 2
    /\ calls[1].result = "error"
    /\ calls[2].result = "ok"
    /\ calls[1].name \in DOMAIN secrets
    /\ calls[2].name \notin DOMAIN secrets
    /\ resp.allowed

-----------------------------------------------------------------------------
(* C11 .. C20                                                              *)

\* the i-th listed secret of a pass: it is updated exactly when the pass
\* compared it and its fresh text differs from the stored one, and a secret
\* with an identical text is left as it was
C11_Secret(h, cls, podStore, before, after, trace, i, secret) ==
    /\ (PodsFetched(trace) >= i /\ HasFresh(h, cls, podStore, secret))
         => (UpdateIssued(trace, secret.name)
              <=> FreshFor(h, cls, podStore, secret).conf # StoredText(secret))
    /\ ~(PodsFetched(trace) >= i /\ HasFresh(h, cls, podStore, secret))
         => ~UpdateIssued(trace, secret.name)
    /\ ~UpdateIssued(trace, secret.name) => after[secret.name] = secret

\* C11: during a reconciliation pass a labeled secret is updated if and only
\* if its freshly assembled text differs from its stored telegraf.conf, and
\* a secret whose stored text is identical receives no write.
C11_UpdateIffDiffers ==
    [][ PassRan =>
          \A i \in DOMAIN listSecrets(secrets) :
              C11_Secret(cfg, classes, pods, secrets, secrets', pass'.calls, i,
                         secrets[listSecrets(secrets)[i]]) ]_vars

\* C12: when the notifications of a burst are all counted before the
\* debouncer reads the counter again at the end of the window, onChange is
\* invoked once for the burst: no burst gets a second callback, and after a
\* single burst of any size, all its signals dequeued, there has been
\* exactly one callback.
C12_OneCallbackPerBurst ==
    observed.inWindow =>
        /\ observed.callbacks <= observed.bursts
        /\ (observed.bursts = 1 /\ WatcherQuiet) => observed.callbacks = 1

C12_Witness ==
    /\ observed.inWindow
    /\ observed.bursts = 1
    /\ observed.notified = 3
    /\ WatcherQuiet
    /\ observed.callbacks = 1

C15_Secret(h, cls, pod, name, secret) ==
    /\ secret.type = "Opaque"
    /\ DOMAIN secret.data = {TelegrafSecretDataKey}
    /\ secret.data[TelegrafSecretDataKey] = RenderedFor(h, cls, pod, name)
    /\ secret.labels = (TelegrafSecretLabelPod :> pod.name
                          @@ TelegrafSecretLabelClassName :> ClassFor(h, pod, name))
    /\ secret.annotations = (TelegrafSecretAnnotationKey :> TelegrafSecretAnnotationValue)
    /\ \A strict \in BOOLEAN :
          isSecretManagedByTelegrafOperator(WithStrictness(h, strict), secret)

\* C15: every secret the admission path writes has type Opaque, the single
\* data key telegraf.conf holding the rendered configuration, the labels of
\* its pod and class and the managed-by annotation, so that it passes the
\* managed check of a later admission, strict or not.
C15_SecretShape ==
    Admitted =>
        \A n \in WrittenNames(calls) : C15_Secret(cfg, classes, ReqPod, n, secrets[n])

C15_Witness ==
    /\ Admitted
    /\ cfg.RequireAnnotationsForSecret
    /\ Cardinality(WrittenNames(calls)) = 2
    /\ \E i \in DOMAIN calls : calls[i].verb = "update" /\ calls[i].result = "ok"

\* the reconciler derives for the secret the text that is stored in it
C14_Secret(h, cls, podStore, secret) ==
    /\ HasFresh(h, cls, podStore, secret)
    /\ FreshFor(h, cls, podStore, secret).conf = StoredText(secret)

\* C14: for every secret the admission path writes, of either variant, the
\* content admission wrote and the content the reconciler derives for the
\* same secret from the same pod and class data are identical.
C14_SameContent ==
    (req.op = "CREATE" /\ resp.kind = "patch") =>
        \A n \in WrittenNames(calls) : C14_Secret(cfg, classes, pods, secrets[n])

\* C16: every configuration text the operator persists into a secret, for
\* either variant, by admission or by the reconciler, parses.
C16_PersistedTextParses ==
    /\ Admitted => \A n \in WrittenNames(calls) : TomlParseOK(StoredText(secrets[n]))
    /\ \A n \in WrittenNames(pass.calls) : TomlParseOK(StoredText(secrets[n]))

\* what ports returned for the annotations single and listed
C17_Result(single, listed, result) ==
    /\ Elements(result) = PortsNamed(single, listed)
    /\ \A i, j \in DOMAIN result : i < j => StringLess(result[i], result[j])
    /\ \A other \in {<<>>} \cup PortLists :
          PortsNamed(single, other) = PortsNamed(single, listed)
            => ports(Pod("web", PortAnnotations(single, other), FreshBody)) = result
    /\ (single = <<>> /\ listed = <<>>) => result = <<>>

\* C17: ports returns the union of the port of the port annotation and the
\* ports of the ports annotation, without duplicates, in the order of Go's
\* string comparison; it returns the same for every order and repetition
\* of the same ports, and nothing when neither annotation is present.
C17_PortsUnionSorted ==
    (call.fn = "ports" /\ call.done)
        => C17_Result(call.args.single, call.args.listed, call.result)

C17_Witness ==
    /\ call.fn = "ports"
    /\ call.done
    /\ call.args.single = (TelegrafMetricsPort :> "6060")
    /\ call.args.listed = <<"8080", "6060", "10000">>
    /\ call.result = <<"10000", "6060", "8080">>

\* body is made of the sections in their order, each one present exactly
\* when its condition holds, the class text last
C18_Sections(body, hasPorts, enabled, ann, classText) ==
    /\ hasPorts => (Len(body) >= 6 /\ body[2] = "[[inputs.prometheus]]")
    /\ ~hasPorts => ~HasLine(body, "[[inputs.prometheus]]")
    /\ ~enabled => ~HasLine(body, "[[inputs.internal]]")
    /\ body = <<"">>
               \o (IF hasPorts THEN SubSeq(body, 2, 6) ELSE <<>>)
               \o (IF enabled THEN <<"[[inputs.internal]]", "">> ELSE <<>>)
               \o (IF TelegrafRawInput \in DOMAIN ann THEN ann[TelegrafRawInput] ELSE <<>>)
               \o classText

\* the tag lines are in conf exactly when there are tag-literal annotations:
\* each after a [global_tags] header, which is the one of the class text or,
\* when it has none, a new one after the class text; conf without the tag
\* lines (and without the new header) is the sections in their order
C18_Conf(conf, tagLines, classHasHeader, hasPorts, enabled, ann, classText) ==
    IF tagLines = {} THEN C18_Sections(conf, hasPorts, enabled, ann, classText)
    ELSE /\ \A t \in tagLines :
              \E i \in 2..Len(conf) : conf[i] = t /\ HasLine(SubSeq(conf, 1, i - 1), "[global_tags]")
         /\ IF classHasHeader
            THEN C18_Sections(WithoutLines(conf, tagLines), hasPorts, enabled, ann, classText)
            ELSE /\ Len(conf) >= Cardinality(tagLines) + 2
                 /\ conf[Len(conf) - Cardinality(tagLines) - 1] = "[global_tags]"
                 /\ { conf[i] : i \in (Len(conf) - Cardinality(tagLines))..(Len(conf) - 1) }
                      = tagLines
                 /\ conf[Len(conf)] = ""
                 /\ C18_Sections(SubSeq(conf, 1, Len(conf) - Cardinality(tagLines) - 2),
                                 hasPorts, enabled, ann, classText)

\* C18: a successful assembleConf output is made of these sections in this
\* order, each present exactly when its condition holds: the scrape input
\* (there is a scrape port), the internal input (it is enabled), the raw
\* fragment (it is supplied), the class text, and the tag lines (there are
\* tag-literal annotations); with no tag-literal annotation the class text
\* is the unmodified final section.
C18_SectionsInOrder ==
    (call.fn = "assembleConf" /\ call.done /\ call.result.err = "none") =>
        C18_Conf(call.result.conf, TagLinesOf(call.args.pod.annotations),
                 HasLine(call.args.cls[call.args.className], "[global_tags]"),
                 HasScrapePort(call.args.pod.annotations),
                 InternalEnabled(call.args.h, call.args.pod.annotations),
                 call.args.pod.annotations, call.args.cls[call.args.className])

C18_Witness ==
    /\ call.fn = "assembleConf"
    /\ call.done
    /\ call.result.err = "none"
    /\ HasScrapePort(call.args.pod.annotations)
    /\ InternalEnabled(call.args.h, call.args.pod.annotations)
    /\ TelegrafRawInput \in DOMAIN call.args.pod.annotations
    /\ TagLinesOf(call.args.pod.annotations) # {}
    /\ HasLine(call.result.conf, "[[inputs.cpu]]")

\* one resource is the annotation value when it parses, else the default
C19_Resource(ann, key, default, list, resourceName) ==
    Resolved(list, resourceName) = IF ParsesAsQuantity(ann, key) THEN ann[key] ELSE default

\* C19 as the specification states it: newContainer resolves each of the four
\* resources on its own as the annotation value when it parses as a quantity
\* and otherwise as the operator default, and never rejects the pod.
C19_AnnotationElseDefault ==
    (call.fn = "newContainer" /\ call.done) =>
        /\ ~call.result.err
        /\ C19_Resource(call.args.pod.annotations, TelegrafRequestsCPU,
                        call.args.h.RequestsCPU, call.result.container.requests, "cpu")
        /\ C19_Resource(call.args.pod.annotations, TelegrafRequestsMemory,
                        call.args.h.RequestsMemory, call.result.container.requests, "memory")
        /\ C19_Resource(call.args.pod.annotations, TelegrafLimitsCPU,
                        call.args.h.LimitsCPU, call.result.container.limits, "cpu")
        /\ C19_Resource(call.args.pod.annotations, TelegrafLimitsMemory,
                        call.args.h.LimitsMemory, call.result.container.limits, "memory")

\* one resource is the annotation value when it parses, nothing when the
\* annotation is the empty string, else the default
C19_ResourceAmended(ann, key, default, list, resourceName) ==
    Resolved(list, resourceName) =
        IF ParsesAsQuantity(ann, key) THEN ann[key]
        ELSE IF key \in DOMAIN ann /\ ann[key] = "" THEN ""
        ELSE default

\* C19, amended: newContainer resolves each of the four resources on its own
\* as the annotation value when it parses as a quantity, as no value when the
\* annotation is present and empty, and otherwise as the operator default; it
\* never rejects the pod, whatever the annotations.
C19_AnnotationEmptyElseDefault ==
    (call.fn = "newContainer" /\ call.done) =>
        /\ ~call.result.err
        /\ C19_ResourceAmended(call.args.pod.annotations, TelegrafRequestsCPU,
                               call.args.h.RequestsCPU, call.result.container.requests, "cpu")
        /\ C19_ResourceAmended(call.args.pod.annotations, TelegrafRequestsMemory,
                               call.args.h.RequestsMemory, call.result.container.requests,
                               "memory")
        /\ C19_ResourceAmended(call.args.pod.annotations, TelegrafLimitsCPU,
                               call.args.h.LimitsCPU, call.result.container.limits, "cpu")
        /\ C19_ResourceAmended(call.args.pod.annotations, TelegrafLimitsMemory,
                               call.args.h.LimitsMemory, call.result.container.limits,
                               "memory")

C19_Witness ==
    /\ call.fn = "newContainer"
    /\ call.done
    /\ MapGet(call.args.pod.annotations, TelegrafRequestsCPU) = "12x"
    /\ MapGet(call.args.pod.annotations, TelegrafLimitsCPU) = "50m"
    /\ TelegrafLimitsMemory \in DOMAIN call.args.pod.annotations
    /\ call.args.pod.annotations[TelegrafLimitsMemory] = ""
    /\ call.result.container.requests = ("cpu" :> "10m" @@ "memory" :> "10Mi")
    /\ call.result.container.limits = ("cpu" :> "50m")

\* the pod of a patch against the pod of the request
C20_Pod(before, after) ==
    /\ after.name = before.name
    /\ after.annotations = before.annotations
    /\ Appended(before.containers, after.containers)
    /\ Appended(before.volumes, after.volumes)
    /\ \A i \in (Len(before.containers) + 1)..Len(after.containers) :
          after.containers[i].name \in {"telegraf", "telegraf-istio"}
    /\ Len(after.volumes) - Len(before.volumes)
          = Len(after.containers) - Len(before.containers)

\* C20: admission never changes the annotations of the pod and never removes,
\* reorders or modifies the containers and volumes it already had: it only
\* appends sidecar containers and their volumes after them.
C20_OnlyAppends ==
    (Admitted /\ resp.patch # <<>>) => C20_Pod(ReqPod, resp.patch[1])

C20_Witness ==
    /\ req.op = "UPDATE"
    /\ resp.patch # <<>>
    /\ Len(ReqPod.volumes) = 1
    /\ Len(resp.patch[1].containers) = Len(ReqPod.containers) + 1
    /\ Len(resp.patch[1].volumes) = 2

-----------------------------------------------------------------------------
(* C21 .. C30                                                              *)

\* C21: a reconciliation pass considers only the secrets that carry the
\* class-name label: a secret without it is not written and no update names
\* it, and the pass makes the calls and returns the result it would have
\* made and returned had those secrets not existed.
C21_LabeledOnly ==
    [][ PassRan =>
          /\ \A n \in UnlabeledNames(secrets) :
                 /\ n \in DOMAIN secrets' /\ secrets'[n] = secrets[n]
                 /\ ~UpdateIssued(pass'.calls, n)
          /\ pass' = PassOf(onChange(cfg, classes, pods, LabeledOnly(secrets), 0)) ]_vars

\* a pass has updated a labeled secret next to an unlabeled one
C21_Witness ==
    /\ UnlabeledNames(secrets) # {}
    /\ \E i \in DOMAIN pass.calls :
          pass.calls[i].verb = "update" /\ pass.calls[i].result = "ok"

\* a failed pass over the secrets listed: nothing follows the step that
\* failed, the pods fetched are those of the first secrets listed, the secret
\* the pass failed at and the ones after it are as they were, and the
\* secrets updated before carry their new text
C23_Pass(h, cls, podStore, before, after, listed, p) ==
    /\ p.calls # <<>>
    /\ OnlyLastMayFail(p.calls)
    /\ (p.err = "api") <=> (p.calls[Len(p.calls)].result # "ok")
    /\ \A i \in DOMAIN p.calls :
          (p.calls[i].verb = "list-secrets"
             /\ p.calls[i].name # Head(NamespacesInOrder)) => i = Len(p.calls)
    /\ Len(Fetches(p.calls)) <= Len(listed)
    /\ \A i \in DOMAIN Fetches(p.calls) :
          Fetches(p.calls)[i].name = MapGet(before[listed[i]].labels, TelegrafSecretLabelPod)
    /\ \A j \in DOMAIN listed :
          /\ j > Len(Fetches(p.calls)) => Untouched(before, after, p.calls, listed[j])
          /\ (j = Len(Fetches(p.calls)) /\ FailedAtFetched(p))
               => after[listed[j]] = before[listed[j]]
    /\ \A i \in DOMAIN p.calls :
          (p.calls[i].verb = "update" /\ p.calls[i].result = "ok")
             => /\ HasFresh(h, cls, podStore, before[p.calls[i].name])
                /\ StoredText(after[p.calls[i].name])
                     = FreshFor(h, cls, podStore, before[p.calls[i].name]).conf

\* C23: when a step of a reconciliation pass returns an error (listing the
\* namespaces or the secrets, fetching a pod, assembling, updating, or a
\* missing label), onChange stops at once: no later secret and no later
\* namespace is read or written, the updates already made are kept, and the
\* failed step is not tried again.
C23_StopsAtFirstError ==
    [][ (PassRan /\ FailedPass(pass')) =>
          C23_Pass(cfg, classes, pods, secrets, secrets', listSecrets(secrets), pass') ]_vars

\* a pass has updated the first secret listed and failed at the second one
C23_Witness ==
    /\ pass.err = "api"
    /\ Len(Fetches(pass.calls)) = 2
    /\ \E i \in DOMAIN pass.calls :
          pass.calls[i].verb = "update" /\ pass.calls[i].result = "ok"

\* the i-th secret listed lacks a label and the ones before it do not: no
\* pod is fetched for it, it and the secrets after it are as they were, no
\* later namespace is listed, and the pass returns the error about the labels
\* unless it had failed before
C24_Secret(h, cls, podStore, before, after, listed, i, p) ==
    /\ Len(Fetches(p.calls)) < i
    /\ \A j \in i..Len(listed) : Untouched(before, after, p.calls, listed[j])
    /\ \A c \in Elements(p.calls) :
          c.verb = "list-secrets" => c.name = Head(NamespacesInOrder)
    /\ p.err = IF ErrBefore(h, cls, podStore, before, listed, i) = "none"
               THEN "labels"
               ELSE ErrBefore(h, cls, podStore, before, listed, i)

\* C24: a labeled secret that lacks a non-empty pod-name label or a
\* non-empty class-name label makes the pass return an error before any pod
\* is fetched for it; the secret is not modified and the pass goes no
\* further.
C24_MissingLabelAborts ==
    [][ PassRan =>
          \A i \in DOMAIN listSecrets(secrets) :
              ( /\ LacksLabel(secrets[listSecrets(secrets)[i]])
                /\ \A j \in 1..(i - 1) : ~LacksLabel(secrets[listSecrets(secrets)[j]]) )
                => C24_Secret(cfg, classes, pods, secrets, secrets',
                              listSecrets(secrets), i, pass') ]_vars

\* a pass has updated the first secret listed and met a second one without
\* its pod-name label
C24_Witness ==
    /\ pass.err = "labels"
    /\ Len(Fetches(pass.calls)) = 1
    /\ pass.calls[Len(pass.calls)].verb = "update"

\* the output conf for the generated tag lines: each is there once; when
\* the text put together had a [global_tags] header they follow its first
\* occurrence, else they are a new section at the end
C25_Conf(conf, lines, hadHeader) ==
    /\ \A i \in DOMAIN lines : Occurrences(conf, lines[i]) = 1
    /\ HeaderPlaces(conf) # {}
    /\ \A i \in HeaderPlaces(conf) :
          (\A j \in HeaderPlaces(conf) : i <= j)
             => /\ i + Len(lines) <= Len(conf)
                /\ SubSeq(conf, i + 1, i + Len(lines)) = lines
    /\ ~hadHeader =>
          /\ Cardinality(HeaderPlaces(conf)) = 1
          /\ Len(conf) >= Len(lines) + 2
          /\ SubSeq(conf, Len(conf) - Len(lines) - 1, Len(conf))
               = <<"[global_tags]">> \o lines \o <<"">>

\* C25: with tag-literal annotations, the generated tag lines, sorted by
\* key, are put at the top of the [global_tags] section by substitution
\* into the first occurrence of its header only, so that each generated
\* line is in the output exactly once; without a header in the text one new
\* [global_tags] section is appended.
C25_TagLinesOnce ==
    ( /\ call.fn = "assembleConf" /\ call.done /\ call.result.err = "none"
      /\ TagKeysOf(call.args.pod.annotations) # {} ) =>
        C25_Conf(call.result.conf, SortedTagLines(call.args.pod.annotations),
                 HeaderPlaces(rawInput(call.args.pod.annotations)
                                \o call.args.cls[call.args.className]) # {})

\* C22: at most one invocation of onChange is in progress at any time: the
\* calls of onChange that have not returned are none, or the one the
\* batchChanges worker is in.
C22_OneCallbackAtATime ==
    /\ observed.callbacks - observed.returned \in {0, 1}
    /\ (observed.callbacks - observed.returned = 1) <=> (debouncer.pc = "callback")

\* the second callback is in progress while a notification is counted and
\* signals wait in the channel
C22_Witness ==
    /\ debouncer.pc = "callback"
    /\ observed.callbacks = 2
    /\ watcher.eventChannel > 0
    /\ listener.pc = "send"

\* C26: onChange is never invoked earlier than one full quiescence window
\* after the last notification the watcher observed before the invocation:
\* the notifications the second read of the counter takes in were all
\* counted before the sleep began.
C26_FullWindowAfterLastObserved ==
    debouncer.pc = "callback" => observed.quiet

\* the step of batchChanges after a dequeue that finds the counter at the
\* value of the last callback: back to the channel, no sleep, no callback
C27_EqualCounterStep ==
    ( /\ debouncer.pc = "load"
      /\ debouncer' # debouncer
      /\ watcher.eventCount = debouncer.previousEventCount )
      => /\ debouncer'.pc = "range"
         /\ observed'.rereads = observed.rereads
         /\ observed'.callbacks = observed.callbacks

\* from its sleep to the return of onChange, batchChanges is in an
\* iteration whose first read differed from the value of the last callback;
\* every call of onChange has had a sleep of its own before it
C27_CallbackAfterSleep ==
    /\ debouncer.pc \in {"sleep", "invoke", "callback"}
          => observed.loaded # debouncer.previousEventCount
    /\ observed.rereads = observed.callbacks + (IF debouncer.pc = "invoke" THEN 1 ELSE 0)

\* C27: when the debouncer dequeues a signal and finds the counter equal to
\* the value recorded at its previous callback, it invokes no callback and
\* does not sleep; every callback is preceded, in the same iteration, by a
\* dequeue that saw a different value and by a full sleep.
C27_NoCallbackForProcessedCount ==
    []C27_CallbackAfterSleep /\ [][C27_EqualCounterStep]_vars

\* a signal was dequeued after the callback that had taken its notification
\* in: batchChanges is back at the channel with nothing left to do
C27_Witness ==
    /\ debouncer.pc = "range"
    /\ observed.callbacks = 1
    /\ observed.loaded = debouncer.previousEventCount
    /\ observed.loaded = 2
    /\ WatcherQuiet

\* the notifications monitorForChanges has received from fsnotify
Received == observed.notified - Len(watcher.watcherEvents)

\* the counter is the number of notifications received, less the one the
\* listener has received and not yet counted; the value recorded as
\* processed does not exceed it
C28_CounterIsReceived ==
    /\ watcher.eventCount = Received - (IF listener.pc = "count" THEN 1 ELSE 0)
    /\ debouncer.previousEventCount <= watcher.eventCount

\* the counter changes by the listener's increment of one only, and a
\* signal is enqueued by the listener only, after its increment
C28_CounterStep ==
    /\ watcher'.eventCount >= watcher.eventCount
    /\ watcher'.eventCount # watcher.eventCount
          => /\ watcher'.eventCount = watcher.eventCount + 1
             /\ listener.pc = "count" /\ listener'.pc = "send"
             /\ watcher'.eventChannel = watcher.eventChannel
    /\ watcher'.eventChannel > watcher.eventChannel
          => /\ listener.pc = "send" /\ listener'.pc = "receive"
             /\ watcher.eventCount = Received
             /\ watcher'.eventCount = watcher.eventCount

\* C28: the event counter never decreases and is incremented by exactly
\* one for every raw notification the listener receives, before the signal
\* of that notification is enqueued; the value the debouncer recorded as
\* processed never exceeds the counter.
C28_CounterMonotonic ==
    []C28_CounterIsReceived /\ [][C28_CounterStep]_vars

\* three notifications are counted, two of them taken in by a callback, and
\* the signal of the third is about to be enqueued
C28_Witness ==
    /\ watcher.eventCount = 3
    /\ debouncer.previousEventCount = 2
    /\ listener.pc = "send"

\* C29: no update is lost in the watcher: under fair scheduling and with
\* callbacks that return, every notification the listener has counted is
\* eventually followed by a call of onChange that starts after it was
\* counted, also when it is counted while a callback runs.
C29_NoLostUpdate ==
    (observed.unanswered > 0) ~> (observed.unanswered = 0)

\* a notification has been counted while a callback runs
C29_Witness ==
    /\ debouncer.pc = "callback"
    /\ observed.unanswered > 0
    /\ watcher.eventCount > debouncer.currentEventCount

\* createOrUpdateSecrets replaces the secret stored under the name of the
\* one at hand
Overwrites ==
    /\ call.fn = "createOrUpdateSecrets"
    /\ call.pc = "update"
    /\ call' # call
    /\ Head(call.list).name \in DOMAIN secrets
    /\ secrets'[Head(call.list).name] # secrets[Head(call.list).name]

\* C30: createOrUpdateSecrets never overwrites a secret that is unmanaged
\* at the moment of the write, whatever the other writers of the secret do
\* between its get, its managed check and its update.
C30_NeverOverwritesUnmanaged ==
    [][ Overwrites =>
          isSecretManagedByTelegrafOperator(cfg, secrets[Head(call.list).name]) ]_vars

-----------------------------------------------------------------------------
(* C31 .. C40                                                              *)

\* C31: handling a pod delete event never deletes a secret that fails the
\* managed check: a secret under one of the pod's two secret names that the
\* operator did not create (wrong type, other data keys, or no managed-by
\* annotation under strict enforcement) is still present, as it was, after
\* the delete event for the pod.
C31_DeleteKeepsUnmanaged ==
    [][ req'.op = "DELETE" =>
          \A n \in DOMAIN secrets :
              ~isSecretManagedByTelegrafOperator(cfg, secrets[n]) =>
                  (n \in DOMAIN secrets' /\ secrets'[n] = secrets[n]) ]_vars

\* C32: the reconciler never modifies a secret that fails the managed check
\* of the admission path: a secret with the class and pod labels but with a
\* type other than Opaque, further data keys or (under strict enforcement)
\* no managed-by annotation is left unchanged by every call of onChange.
C32_ReconcilerKeepsUnmanaged ==
    [][ PassRan =>
          \A n \in DOMAIN secrets :
              ~isSecretManagedByTelegrafOperator(cfg, secrets[n]) =>
                  (n \in DOMAIN secrets' /\ secrets'[n] = secrets[n]) ]_vars

\* C33: if a create or update admission request is rejected, no secret has
\* been created or modified on behalf of that request; in particular, when
\* both variants are injected and the secret of the second one meets an
\* ownership conflict, the secret of the first one has not been written.
C33_RejectedWritesNothing ==
    [][ (Admitted' /\ ~resp'.allowed) => secrets' = secrets ]_vars

\* the stored text of the secret is the one a pass or an admission rendered
\* from the class directory dir
InSyncWith(dir, secret) ==
    /\ HasFresh(cfg, dir, pods, secret)
    /\ StoredText(secret) = FreshFor(cfg, dir, pods, secret).conf

\* the secret called n is labeled, its pod exists, and its stored text,
\* rendered from an earlier content of the class directory, differs from the
\* fresh rendering
StaleAfterClassChange(n) ==
    /\ n \in LabeledNames(secrets)
    /\ HasFresh(cfg, classes, pods, secrets[n])
    /\ StoredText(secrets[n]) # FreshFor(cfg, classes, pods, secrets[n]).conf
    /\ \E dir \in RunningClassDirectories \ {classes} : InSyncWith(dir, secrets[n])

\* C34: after a class change, every labeled secret whose pod still exists
\* and whose fresh rendering differs from its stored text is eventually
\* updated by some pass (or stops being out of date some other way), also
\* when another labeled secret of the cluster fails in every pass.
C34_StaleEventuallyUpdated ==
    \A n \in SecretNames : StaleAfterClassChange(n) ~> ~StaleAfterClassChange(n)

\* C35: a pass never reaches a crash state for a labeled secret, also when
\* the data map of the secret is absent or empty: the pass updates the
\* secret, leaves it untouched or returns an error.
C35_PassNeverCrashes ==
    pass.err # "panic"

\* the successful writes of a request, in order
WritesInOrder(trace) ==
    SelectSeq(trace, LAMBDA c : c.verb \in {"create", "update"} /\ c.result = "ok")

\* what follows the first n elements of a sequence
After(seq, n) == SubSeq(seq, n + 1, Len(seq))

\* the sidecars a request added, by name, in the order the specification
\* gives them
SidecarOrders == { <<"telegraf">>, <<"telegraf-istio">>, <<"telegraf", "telegraf-istio">> }

\* the containers and volumes a request added to the pod called name and
\* the secrets it wrote match one by one
C36_Patch(name, addedContainers, addedVolumes, written) ==
    /\ [i \in DOMAIN addedContainers |-> addedContainers[i].name] \in SidecarOrders
    /\ Len(written) = Len(addedContainers)
    /\ Len(addedVolumes) = Len(addedContainers)
    /\ \A i \in DOMAIN addedContainers :
          /\ written[i].name = addedContainers[i].name \o "-config-" \o name
          /\ addedVolumes[i].secretName = written[i].name
          /\ addedVolumes[i].name = addedContainers[i].volumeMount
          /\ written[i].name \in DOMAIN secrets

\* C36: for every create or update admission that returns a patch, the
\* secrets written in the request are exactly one per sidecar container the
\* request added, in the same order (telegraf before telegraf-istio), and
\* the volume added for a container names the secret written for it; no
\* secret is written for a variant whose container is not in the patch.
C36_SecretPerAddedContainer ==
    (Admitted /\ resp.kind = "patch") =>
        C36_Patch(ReqPod.name,
                  After(resp.patch[1].containers, Len(ReqPod.containers)),
                  After(resp.patch[1].volumes, Len(ReqPod.volumes)),
                  WritesInOrder(calls))

\* a request has added both sidecars and written both secrets, the second
\* one by an update
C36_Witness ==
    /\ Admitted
    /\ resp.kind = "patch"
    /\ Len(resp.patch[1].containers) = Len(ReqPod.containers) + 2
    /\ Len(WritesInOrder(calls)) = 2
    /\ WritesInOrder(calls)[2].verb = "update"

\* C37: across any interleaving of create, update and delete admission
\* events for pods of one name, every pod that was admitted with an injected
\* sidecar and whose deletion has not been requested since has its
\* configuration secrets in the store: a delete event for an earlier pod of
\* the name never removes the secret written for a later admission.
C37_AdmittedPodKeepsSecret ==
    call.fn = "Handle" =>
        \A n \in DOMAIN pods :
            ~pods[n].deleteRequested => pods[n].wrote \subseteq DOMAIN secrets

\* the names the functions returned for the pod names p and q: for p the
\* delete path and the admission path name the same two secrets, which
\* differ, and none of them is a name of q
C38_Names(p, q, ofP, ofQ) ==
    /\ Elements(ofP.deletes) = Elements(ofP.creates)
    /\ Elements(ofP.deletes)
         = { SidecarContainerNames[i] \o "-config-" \o p : i \in DOMAIN SidecarContainerNames }
    /\ ofP.mounts = ofP.creates
    /\ ofP.creates[1] # ofP.creates[2]
    /\ p # q => Elements(ofP.deletes) \cap (Elements(ofQ.deletes) \cup Elements(ofQ.creates)) = {}

\* C38: the secret names the delete path targets for a pod named P are the
\* secret names the admission path can create for P (<container>-config-P
\* for the containers telegraf and telegraf-istio), and the secret names of
\* two distinct pod names or of two distinct variants never coincide.
C38_DeleteNamesAreCreateNames ==
    (call.fn = "telegrafSecretNames" /\ call.done) =>
        C38_Names(call.args.name, call.args.other, call.result[1], call.result[2])

\* the names have been computed for two pod names of which one, put after
\* "istio-", makes the other
C38_Witness ==
    /\ call.fn = "telegrafSecretNames"
    /\ call.done
    /\ call.args.name = "istio-web"
    /\ call.args.other = "web"
    /\ call.result[1].deletes = <<"telegraf-config-istio-web", "telegraf-istio-config-istio-web">>

\* there are never more calls of onChange than notifications counted
C39_CallbacksWithinCount ==
    observed.callbacks <= watcher.eventCount

\* onChange is called for a counter value above the one recorded at the
\* call before, and its return records that value
C39_CallbackStep ==
    /\ observed'.callbacks # observed.callbacks
          => /\ observed'.callbacks = observed.callbacks + 1
             /\ debouncer.pc = "invoke"
             /\ debouncer.currentEventCount > debouncer.previousEventCount
    /\ debouncer'.previousEventCount >= debouncer.previousEventCount
    /\ observed'.returned # observed.returned
          => /\ debouncer'.previousEventCount > debouncer.previousEventCount
             /\ debouncer'.previousEventCount = debouncer.currentEventCount

\* C39: the number of onChange invocations never exceeds the number of
\* notifications counted by the listener, and the counter value recorded as
\* processed strictly increases from one callback invocation to the next:
\* the watcher makes no spurious callback.
C39_NoSpuriousCallback ==
    []C39_CallbacksWithinCount /\ [][C39_CallbackStep]_vars

\* the second callback has returned: it recorded a value above the one of
\* the first, and a signal of a notification already taken in is queued
C39_Witness ==
    /\ observed.returned = 2
    /\ observed.callbacks = 2
    /\ debouncer.previousEventCount = 3
    /\ watcher.eventCount = 3
    /\ watcher.eventChannel >= 1
    /\ debouncer.pc = "range"

\* monitorForChanges is at its send and the channel has no place left
ListenerBlocked ==
    /\ listener.pc = "send"
    /\ watcher.eventChannel = EventChannelCapacity

\* the listener at its send can go on unless the channel is full, the
\* channel never holds more than its capacity, and the two goroutines are
\* never both unable to go on
C40_BlockedOnlyWhenFull ==
    /\ watcher.eventChannel <= EventChannelCapacity
    /\ (listener.pc = "send" /\ ~ENABLED ListenerSend) => ListenerBlocked
    /\ ListenerBlocked
          => \/ ENABLED DebouncerDequeue
             \/ ENABLED DebouncerLoad
             \/ ENABLED DebouncerWake
             \/ ENABLED DebouncerInvoke
             \/ ENABLED DebouncerReturn

\* C40: the listener and the debouncer never deadlock: the listener blocks
\* only while the signal queue holds its full capacity of 100 entries, and,
\* when every call of onChange returns, the debouncer keeps dequeuing so
\* that the pending enqueue of the listener eventually completes.
C40_NoDeadlock ==
    /\ []C40_BlockedOnlyWhenFull
    /\ ListenerBlocked ~> (listener.pc = "receive")

\* the listener waits at a full channel while onChange runs
C40_Witness ==
    /\ ListenerBlocked
    /\ debouncer.pc = "callback"
    /\ watcher.eventCount = EventChannelCapacity + 2

=========================================================================
